---- MODULE Spec2Model ----
(***************************************************************************)
(* Role hierarchy and permission resolution of the value-list application. *)
(*                                                                         *)
(* RoleConfigurator (role_configurator.py) owns role_hierarchy,            *)
(* permission_registry, role_permissions_mapping and role_audit_log.       *)
(* RoleManager (role_management.py) owns roles, role_permissions,          *)
(* user_roles and permission_audit.  Both talk to the store through        *)
(* DatabaseManager.execute_query (database.py), which runs ONE statement   *)
(* per call and commits it on its own: a handler is a sequence of          *)
(* independently committed statements.  Query results are modelled as the  *)
(* row sets the statements select.                                         *)
(***************************************************************************)
EXTENDS Integers, Sequences, FiniteSets, TLC

VARIABLES
    role_hierarchy,            \* role_id -> row of table role_hierarchy
    role_permissions_mapping,  \* <<role_id, permission_key>> -> row
    role_audit_log,            \* sequence of audit rows (audit_id = index)
    roles,                     \* role_id -> row of table roles
    role_permissions,          \* set of <<role_id, permission_name>>
    user_roles,                \* <<user_id, role_id>> -> row of user_roles
    permission_audit,          \* sequence of permission_audit rows
    now,                       \* CURRENT_TIMESTAMP
    last,                      \* the last call: its arguments and result
    pc,                        \* per session: position in update_role_hierarchy
    call                       \* per session: arguments and locals of the call

vars == <<role_hierarchy, role_permissions_mapping, role_audit_log, roles,
          role_permissions, user_roles, permission_audit, now, last, pc, call>>

configurator_tables == <<role_hierarchy, role_permissions_mapping, role_audit_log>>
manager_tables == <<roles, role_permissions, user_roles, permission_audit>>
sessions == <<pc, call>>

----------------------------------------------------------------------------
(* Bounds of the model *)

MaxRoles == 3          \* rows of role_hierarchy
MaxAudit == 3          \* rows of role_audit_log in the sequential model
MaxTime == 2           \* clock values 0..MaxTime
DeepRoles == 11        \* length of the chain the deep model starts from
MaxDeepCalls == 1      \* update_role_hierarchy calls logged in the deep model
MaxManagerCalls == 2   \* rows of permission_audit in the manager model
MaxGrantCalls == 2     \* rows of role_audit_log in the grant model
MaxFrameCalls == 1     \* audit rows of both logs in the failure model
MaxAuditCalls == 2     \* audit rows of both logs in the audit model

(* SQL NULL / Python None for ids and timestamps; SERIAL ids start at 1 *)
NULL == 0

RoleIds == 1..MaxRoles
RoleNames == {"moderator", "trainee_mod", "content_manager"}
Editors == {1}         \* created_by / updated_by / assigned_by of the configurator
Sessions == {1, 2}     \* concurrent update_role_hierarchy calls
Users == {1, 2}        \* user ids
LevelArgs == {0, 2}    \* role_data.get('level', 0): absent, or a template's level

----------------------------------------------------------------------------
(* permission_registry: the keys of _get_default_permissions *)

permission_registry == {"roles.edit", "content.moderate"}

(* expires_at of a row: NULL, or the instant 1 of the clock 0..MaxTime *)
ExpiryArgs == {NULL, 1}

----------------------------------------------------------------------------
(* RoleConfigurator: statements *)

(* The recursive CTE parent_chain of _would_create_cycle: the row of `rid` at
   depth `depth`, then the row of its parent while depth < 10. *)
CycleDepthLimit == 10

RECURSIVE parent_chain(_, _, _)
parent_chain(rh, rid, depth) ==
    IF rid \notin DOMAIN rh THEN {}
    ELSE {rid} \cup
         (IF depth < CycleDepthLimit
          THEN parent_chain(rh, rh[rid].parent_role_id, depth + 1)
          ELSE {})

(* SELECT role_id FROM parent_chain WHERE role_id = %s; len(result) > 0 *)
would_create_cycle(rh, role_id, new_parent_id) ==
    role_id \in parent_chain(rh, new_parent_id, 1)

(* SELECT parent_role_id FROM role_hierarchy WHERE role_id = %s;
   old_result[0][0] if old_result else None *)
select_parent(rh, role_id) ==
    IF role_id \in DOMAIN rh THEN rh[role_id].parent_role_id ELSE NULL

(* UPDATE role_hierarchy SET parent_role_id = %s WHERE role_id = %s.  The
   column REFERENCES role_hierarchy(role_id): a parent that names no row
   fails the statement, and execute_query swallows the failure. *)
update_parent(rh, role_id, new_parent_id) ==
    IF role_id \in DOMAIN rh /\ (new_parent_id = NULL \/ new_parent_id \in DOMAIN rh)
    THEN [rh EXCEPT ![role_id].parent_role_id = new_parent_id]
    ELSE rh

(* The recursive CTE role_levels: the roots at level 0, then the children of
   the rows found so far at one level more. *)
RECURSIVE role_levels(_, _, _)
role_levels(rh, frontier, lvl) ==
    IF frontier = {} THEN {}
    ELSE {<<r, lvl>> : r \in frontier} \cup
         role_levels(rh, {c \in DOMAIN rh : rh[c].parent_role_id \in frontier}, lvl + 1)

(* UPDATE role_hierarchy SET level = role_levels.new_level FROM role_levels
   WHERE role_hierarchy.role_id = role_levels.role_id: roles the CTE does not
   reach keep their level. *)
update_role_levels(rh) ==
    LET rl == role_levels(rh, {r \in DOMAIN rh : rh[r].parent_role_id = NULL}, 0)
    IN  [r \in DOMAIN rh |->
            IF \E x \in rl : x[1] = r
            THEN [rh[r] EXCEPT !.level = (CHOOSE x \in rl : x[1] = r)[2]]
            ELSE rh[r]]

(* WHERE ri.inherit_permissions = TRUE: the recursive step of role_inheritance
   climbs from a row only if that row inherits *)
climbs_always(row) == TRUE

climbs(row) == row.inherit_permissions = TRUE

(* The recursive CTE role_inheritance of get_role_permissions: the role, then
   the parent of every row found in the last round that inherits.  UNION ALL
   on a cyclic chain never ends; the statement timeout then fails the query
   and execute_query returns no rows. *)
RECURSIVE role_inheritance(_, _, _)
role_inheritance(rh, found, frontier) ==
    LET nxt == {r \in DOMAIN rh :
                   \E ri \in frontier : climbs(rh[ri]) /\ rh[ri].parent_role_id = r}
    IN  IF nxt = {} THEN found
        ELSE IF nxt \subseteq found THEN {}
        ELSE role_inheritance(rh, found \cup nxt, nxt)

mapping_row_unexpired(row, t) ==
    row.expires_at = NULL \/ row.expires_at > t

(* WHERE rpm.granted = TRUE AND (rpm.expires_at IS NULL OR rpm.expires_at >
   CURRENT_TIMESTAMP) *)
mapping_row_counts(row, t) ==
    row.granted = TRUE /\ (row.expires_at = NULL \/ row.expires_at > t)

(* SELECT DISTINCT pr.permission_key FROM role_inheritance ri JOIN
   role_permissions_mapping rpm ... JOIN permission_registry pr ... *)
get_role_permissions(rh, rpm, t, role_id) ==
    LET ri == role_inheritance(rh, {role_id} \cap DOMAIN rh, {role_id} \cap DOMAIN rh)
    IN  {k \in permission_registry :
            \E r \in ri : /\ <<r, k>> \in DOMAIN rpm
                          /\ mapping_row_counts(rpm[<<r, k>>], t)}

(* INSERT INTO role_audit_log (action_type, role_id, changed_by, old_value,
   new_value, change_reason) *)
log_role_action(log, action_type, role_id, changed_by, old_value, new_value) ==
    Append(log, [action_type |-> action_type, role_id |-> role_id,
                 changed_by |-> changed_by, old_value |-> old_value,
                 new_value |-> new_value])

registered_keys_unchecked(permission_keys) ==
    {permission_keys[i] : i \in DOMAIN permission_keys}

(* SELECT permission_id, permission_key FROM permission_registry WHERE
   permission_key IN (...) *)
registered_keys(permission_keys) ==
    {permission_keys[i] : i \in DOMAIN permission_keys} \cap permission_registry

upsert_mapping_toggling(rh, rpm, role_id, key, granted_by) ==
    IF role_id \notin DOMAIN rh THEN rpm
    ELSE [k \in DOMAIN rpm \cup {<<role_id, key>>} |->
             IF k # <<role_id, key>> THEN rpm[k]
             ELSE IF k \in DOMAIN rpm
             THEN [rpm[k] EXCEPT !.granted = ~rpm[k].granted, !.granted_by = granted_by]
             ELSE [granted |-> TRUE, expires_at |-> NULL, granted_by |-> granted_by]]

(* INSERT INTO role_permissions_mapping (role_id, permission_id, granted_by)
   ... ON CONFLICT (role_id, permission_id) DO UPDATE SET granted = TRUE,
   granted_by = EXCLUDED.granted_by.  granted and expires_at of a new row take
   the column defaults TRUE and NULL; role_id REFERENCES role_hierarchy, and
   the statement fails, without a trace, when it names no row. *)
upsert_mapping(rh, rpm, role_id, key, granted_by) ==
    IF role_id \notin DOMAIN rh THEN rpm
    ELSE [k \in DOMAIN rpm \cup {<<role_id, key>>} |->
             IF k # <<role_id, key>> THEN rpm[k]
             ELSE IF k \in DOMAIN rpm
             THEN [rpm[k] EXCEPT !.granted = TRUE, !.granted_by = granted_by]
             ELSE [granted |-> TRUE, expires_at |-> NULL, granted_by |-> granted_by]]

(* for perm_key in permission_keys: if perm_key in permission_mapping: ... *)
RECURSIVE assign_each(_, _, _, _, _, _)
assign_each(rh, rpm, role_id, permission_keys, granted_by, i) ==
    IF i > Len(permission_keys) THEN rpm
    ELSE assign_each(rh,
             IF permission_keys[i] \in registered_keys(permission_keys)
             THEN upsert_mapping(rh, rpm, role_id, permission_keys[i], granted_by)
             ELSE rpm,
             role_id, permission_keys, granted_by, i + 1)

(* INSERT INTO role_hierarchy ... RETURNING role_id succeeds unless role_name
   is taken (UNIQUE) or parent_role_id names no row (REFERENCES). *)
insert_role_ok(rh, role_name, parent_role_id) ==
    /\ \A r \in DOMAIN rh : rh[r].role_name # role_name
    /\ parent_role_id = NULL \/ parent_role_id \in DOMAIN rh

next_role_id(rh) == Cardinality(DOMAIN rh) + 1

(* the row create_role inserts: level is role_data.get('level', 0), is_active
   is not in the column list and takes the column default TRUE *)
new_role_row(role_name, parent_role_id, level, inherit_permissions) ==
    [role_name |-> role_name, parent_role_id |-> parent_role_id, level |-> level,
     inherit_permissions |-> inherit_permissions, is_active |-> TRUE]

----------------------------------------------------------------------------
(* RoleConfigurator: handlers, each run alone from start to end *)

create_role(role_name, parent_role_id, level, inherit_permissions, created_by) ==
    /\ IF insert_role_ok(role_hierarchy, role_name, parent_role_id)
       THEN LET role_id == next_role_id(role_hierarchy) IN
            /\ role_hierarchy' =
                   [r \in DOMAIN role_hierarchy \cup {role_id} |->
                       IF r = role_id
                       THEN new_role_row(role_name, parent_role_id, level,
                                         inherit_permissions)
                       ELSE role_hierarchy[r]]
            /\ role_audit_log' = log_role_action(role_audit_log, "create_role",
                                                 role_id, created_by, NULL, NULL)
            /\ last' = [op |-> "create_role", role_id |-> role_id,
                        parent_role_id |-> parent_role_id, ok |-> TRUE]
       ELSE /\ UNCHANGED <<role_hierarchy, role_audit_log>>
            /\ last' = [op |-> "create_role", role_id |-> NULL,
                        parent_role_id |-> parent_role_id, ok |-> FALSE]
    /\ UNCHANGED <<role_permissions_mapping, manager_tables, now, sessions>>

update_role_hierarchy(role_id, new_parent_id, updated_by) ==
    /\ IF new_parent_id # NULL /\ would_create_cycle(role_hierarchy, role_id, new_parent_id)
       THEN /\ UNCHANGED <<role_hierarchy, role_audit_log>>
            /\ last' = [op |-> "update_role_hierarchy", role_id |-> role_id,
                        parent_role_id |-> new_parent_id, ok |-> FALSE]
       ELSE LET old_parent == select_parent(role_hierarchy, role_id) IN
            /\ role_hierarchy' =
                   update_role_levels(update_parent(role_hierarchy, role_id, new_parent_id))
            /\ role_audit_log' = log_role_action(role_audit_log, "update_hierarchy",
                                                 role_id, updated_by, old_parent,
                                                 new_parent_id)
            /\ last' = [op |-> "update_role_hierarchy", role_id |-> role_id,
                        parent_role_id |-> new_parent_id, ok |-> TRUE]
    /\ UNCHANGED <<role_permissions_mapping, manager_tables, now, sessions>>

----------------------------------------------------------------------------
(* RoleManager: tables and queries *)

(* ALL_PERMISSIONS, the keys the model follows *)
ALL_PERMISSIONS == {"roles.assign", "roles.create", "roles.edit", "content.moderate"}

(* default_roles of _setup_default_roles (moderator, admin, owner; 'all' is
   every key of ALL_PERMISSIONS), and one role as create_custom_role makes it:
   is_system False, the default priority 30 *)
default_roles ==
    <<[role_name |-> "moderator", priority |-> 50, is_system |-> TRUE, is_active |-> TRUE],
      [role_name |-> "admin", priority |-> 90, is_system |-> TRUE, is_active |-> TRUE],
      [role_name |-> "owner", priority |-> 100, is_system |-> TRUE, is_active |-> TRUE],
      [role_name |-> "helper", priority |-> 30, is_system |-> FALSE, is_active |-> TRUE]>>

default_role_permissions ==
    {<<1, "content.moderate">>, <<4, "roles.assign">>}
        \cup {<<r, p>> : r \in {2, 3}, p \in ALL_PERMISSIONS}

RoleNameArgs == {"moderator", "admin", "owner", "helper", "ghost"}

(* WHERE ur.is_active = TRUE AND (ur.expires_at IS NULL OR ur.expires_at >
   CURRENT_TIMESTAMP), the filter the three read queries share *)
assignment_counts_if_active(row, t) == row.is_active = TRUE

assignment_counts(row, t) ==
    row.is_active = TRUE /\ (row.expires_at = NULL \/ row.expires_at > t)

counted_roles_any_role(user_id) ==
    {r \in DOMAIN roles :
        /\ <<user_id, r>> \in DOMAIN user_roles
        /\ assignment_counts(user_roles[<<user_id, r>>], now)}

(* FROM user_roles ur JOIN roles r ON ur.role_id = r.role_id WHERE
   ur.user_id = %s AND ... AND r.is_active = TRUE *)
counted_roles(user_id) ==
    {r \in DOMAIN roles :
        /\ <<user_id, r>> \in DOMAIN user_roles
        /\ assignment_counts(user_roles[<<user_id, r>>], now)
        /\ roles[r].is_active = TRUE}

(* SELECT DISTINCT p.permission_name ... JOIN role_permissions rp ... JOIN
   permissions p ...; set(result['permission_name']) *)
get_user_permissions(user_id) ==
    {p \in ALL_PERMISSIONS : \E r \in counted_roles(user_id) : <<r, p>> \in role_permissions}

(* the same query; permission in user_permissions, False on no rows *)
has_permission(user_id, permission) ==
    permission \in
        {p \in ALL_PERMISSIONS : \E r \in counted_roles(user_id) : <<r, p>> \in role_permissions}

RECURSIVE max_of(_)
max_of(S) ==
    LET x == CHOOSE y \in S : TRUE
    IN  IF S = {x} THEN x
        ELSE LET m == max_of(S \ {x}) IN IF x > m THEN x ELSE m

(* SELECT MAX(r.priority) ...; 0 when there is no row *)
get_user_max_priority(user_id) ==
    IF counted_roles(user_id) = {} THEN 0
    ELSE max_of({roles[r].priority : r \in counted_roles(user_id)})

log_permission_action_replacing(log, user_id, action, target_type, target_id, permission_used) ==
    LET entry == [user_id |-> user_id, action |-> action, target_type |-> target_type,
                  target_id |-> target_id, permission_used |-> permission_used,
                  success |-> TRUE]
    IN  IF log = <<>> THEN <<entry>> ELSE [log EXCEPT ![Len(log)] = entry]

(* INSERT INTO permission_audit (user_id, action, target_type, target_id,
   permission_used, success) *)
log_permission_action(log, user_id, action, target_type, target_id, permission_used) ==
    Append(log, [user_id |-> user_id, action |-> action, target_type |-> target_type,
                 target_id |-> target_id, permission_used |-> permission_used,
                 success |-> TRUE])

any_role_named(role_name) ==
    {r \in DOMAIN roles : roles[r].role_name = role_name}

(* SELECT role_id, priority FROM roles WHERE role_name = %s AND is_active = TRUE *)
active_role_named(role_name) ==
    {r \in DOMAIN roles : roles[r].role_name = role_name /\ roles[r].is_active = TRUE}

(* SELECT r.role_id, r.priority, r.is_system FROM roles r WHERE r.role_name = %s *)
role_named(role_name) == {r \in DOMAIN roles : roles[r].role_name = role_name}

(* if role_priority >= assigner_max_priority: return failure *)
may_assign_up_to_equal(role_priority, assigner_max_priority) ==
    ~(role_priority > assigner_max_priority)

may_assign(role_priority, assigner_max_priority) ==
    ~(role_priority >= assigner_max_priority)

(* SELECT id FROM user_roles WHERE user_id = %s AND role_id = %s AND
   is_active = TRUE; not existing.empty *)
already_has_role(user_id, role_id) ==
    /\ <<user_id, role_id>> \in DOMAIN user_roles
    /\ user_roles[<<user_id, role_id>>].is_active = TRUE

insert_user_role_reactivating(ur, user_id, role_id, assigned_by, expires_at) ==
    [k \in DOMAIN ur \cup {<<user_id, role_id>>} |->
        IF k = <<user_id, role_id>>
        THEN [is_active |-> TRUE, expires_at |-> expires_at,
              assigned_by |-> assigned_by]
        ELSE ur[k]]

(* INSERT INTO user_roles (user_id, role_id, assigned_by, expires_at); is_active
   takes the default TRUE.  UNIQUE(user_id, role_id): with a row of the pair
   present the statement fails, and execute_query swallows the failure. *)
insert_user_role(ur, user_id, role_id, assigned_by, expires_at) ==
    IF <<user_id, role_id>> \in DOMAIN ur THEN ur
    ELSE [k \in DOMAIN ur \cup {<<user_id, role_id>>} |->
             IF k = <<user_id, role_id>>
             THEN [is_active |-> TRUE, expires_at |-> expires_at,
                   assigned_by |-> assigned_by]
             ELSE ur[k]]

delete_user_role(ur, user_id, role_id) ==
    [k \in DOMAIN ur \ {<<user_id, role_id>>} |-> ur[k]]

(* UPDATE user_roles SET is_active = FALSE WHERE user_id = %s AND role_id = %s
   AND is_active = TRUE *)
deactivate_user_role(ur, user_id, role_id) ==
    [k \in DOMAIN ur |->
        IF k = <<user_id, role_id>> /\ ur[k].is_active = TRUE
        THEN [ur[k] EXCEPT !.is_active = FALSE]
        ELSE ur[k]]

(* if is_system and role_name in ['owner', 'admin']: the priority check of
   remove_role_from_user applies *)
removal_is_guarded(role_name, is_system) ==
    is_system /\ role_name \in {"owner", "admin"}

----------------------------------------------------------------------------
(* RoleManager: handlers *)

AssignFailed(assigner_id, user_id, role_name, error) ==
    /\ last' = [op |-> "assign_role_to_user", actor |-> assigner_id, user_id |-> user_id,
                role_name |-> role_name, ok |-> FALSE, error |-> error]
    /\ UNCHANGED <<user_roles, permission_audit>>

assign_role_to_user(assigner_id, user_id, role_name, expires_at) ==
    /\ IF ~has_permission(assigner_id, "roles.assign")
       THEN AssignFailed(assigner_id, user_id, role_name,
                         "Insufficient permissions to assign roles")
       ELSE IF active_role_named(role_name) = {}
       THEN AssignFailed(assigner_id, user_id, role_name, "Role not found")
       ELSE LET role_id == CHOOSE r \in active_role_named(role_name) : TRUE IN
            IF ~may_assign(roles[role_id].priority, get_user_max_priority(assigner_id))
            THEN AssignFailed(assigner_id, user_id, role_name,
                              "Cannot assign role with equal or higher priority")
            ELSE IF already_has_role(user_id, role_id)
            THEN AssignFailed(assigner_id, user_id, role_name,
                              "User already has this role")
            ELSE /\ user_roles' = insert_user_role(user_roles, user_id, role_id,
                                                   assigner_id, expires_at)
                 /\ permission_audit' =
                        log_permission_action(permission_audit, assigner_id,
                            "role_assigned", "user", user_id, "roles.assign")
                 /\ last' = [op |-> "assign_role_to_user", actor |-> assigner_id,
                             user_id |-> user_id, role_name |-> role_name,
                             ok |-> TRUE, error |-> ""]
    /\ UNCHANGED <<configurator_tables, roles, role_permissions, now, sessions>>

RemoveFailedAfterUpdate(remover_id, user_id, role_name, error) ==
    /\ last' = [op |-> "remove_role_from_user", actor |-> remover_id, user_id |-> user_id,
                role_name |-> role_name, ok |-> FALSE, error |-> error]
    /\ user_roles' = [k \in DOMAIN user_roles |->
                         IF k[1] = user_id /\ k[2] \in role_named(role_name)
                         THEN [user_roles[k] EXCEPT !.is_active = FALSE]
                         ELSE user_roles[k]]
    /\ UNCHANGED permission_audit

RemoveFailed(remover_id, user_id, role_name, error) ==
    /\ last' = [op |-> "remove_role_from_user", actor |-> remover_id, user_id |-> user_id,
                role_name |-> role_name, ok |-> FALSE, error |-> error]
    /\ UNCHANGED <<user_roles, permission_audit>>

remove_role_from_user(remover_id, user_id, role_name) ==
    /\ IF ~has_permission(remover_id, "roles.assign")
       THEN RemoveFailed(remover_id, user_id, role_name,
                         "Insufficient permissions to remove roles")
       ELSE IF role_named(role_name) = {}
       THEN RemoveFailed(remover_id, user_id, role_name, "Role not found")
       ELSE LET role_id == CHOOSE r \in role_named(role_name) : TRUE IN
            IF /\ removal_is_guarded(role_name, roles[role_id].is_system)
               /\ roles[role_id].priority >= get_user_max_priority(remover_id)
            THEN RemoveFailed(remover_id, user_id, role_name,
                              "Cannot remove system role with equal or higher priority")
            ELSE /\ user_roles' = deactivate_user_role(user_roles, user_id, role_id)
                 /\ permission_audit' =
                        log_permission_action(permission_audit, remover_id,
                            "role_removed", "user", user_id, "roles.assign")
                 /\ last' = [op |-> "remove_role_from_user", actor |-> remover_id,
                             user_id |-> user_id, role_name |-> role_name,
                             ok |-> TRUE, error |-> ""]
    /\ UNCHANGED <<configurator_tables, roles, role_permissions, now, sessions>>

(* if not role_name or len(role_name) < 2 *)
name_too_short(role_name) == Len(role_name) < 2

(* for perm in permissions: if perm in self.ALL_PERMISSIONS: valid_perms.append *)
valid_perms(permissions) ==
    {permissions[i] : i \in DOMAIN permissions} \cap ALL_PERMISSIONS

insert_custom_role_unchecked(rl, role_name, priority) ==
    [r \in DOMAIN rl \cup {Cardinality(DOMAIN rl) + 1} |->
        IF r \in DOMAIN rl THEN rl[r]
        ELSE [role_name |-> role_name, priority |-> priority,
              is_system |-> FALSE, is_active |-> TRUE]]

(* INSERT INTO roles (role_name, ..., priority, is_system, created_by) VALUES
   (..., False, creator_id) RETURNING role_id; is_active takes the default
   TRUE.  role_name is unique in roles (ON CONFLICT (role_name) of
   _create_default_role): with the name taken the statement fails and no row
   comes back. *)
insert_custom_role(rl, role_name, priority) ==
    IF \E r \in DOMAIN rl : rl[r].role_name = role_name THEN rl
    ELSE [r \in DOMAIN rl \cup {Cardinality(DOMAIN rl) + 1} |->
             IF r \in DOMAIN rl THEN rl[r]
             ELSE [role_name |-> role_name, priority |-> priority,
                   is_system |-> FALSE, is_active |-> TRUE]]

CreateFailed(creator_id, role_name, error) ==
    /\ last' = [op |-> "create_custom_role", actor |-> creator_id, user_id |-> NULL,
                role_name |-> role_name, ok |-> FALSE, error |-> error]
    /\ UNCHANGED <<roles, role_permissions, permission_audit>>

create_custom_role(creator_id, role_name, permissions, priority) ==
    /\ IF ~has_permission(creator_id, "roles.create")
       THEN CreateFailed(creator_id, role_name,
                         "Insufficient permissions to create roles")
       ELSE IF name_too_short(role_name)
       THEN CreateFailed(creator_id, role_name,
                         "Role name must be at least 2 characters")
       ELSE IF role_named(role_name) # {}
       THEN CreateFailed(creator_id, role_name, "Role name already exists")
       ELSE LET role_id == Cardinality(DOMAIN roles) + 1 IN
            /\ roles' = insert_custom_role(roles, role_name, priority)
            /\ role_permissions' =
                   role_permissions \cup {<<role_id, p>> : p \in valid_perms(permissions)}
            /\ permission_audit' =
                   log_permission_action(permission_audit, creator_id,
                       "role_created", "role", role_id, "roles.create")
            /\ last' = [op |-> "create_custom_role", actor |-> creator_id,
                        user_id |-> NULL, role_name |-> role_name,
                        ok |-> TRUE, error |-> ""]
    /\ UNCHANGED <<configurator_tables, user_roles, now, sessions>>

(* UPDATE user_roles SET is_active = FALSE WHERE expires_at < CURRENT_TIMESTAMP
   AND is_active = TRUE *)
sweep_expiring(ur, t) ==
    [k \in DOMAIN ur |->
        IF ur[k].expires_at # NULL /\ ur[k].is_active = TRUE
        THEN [ur[k] EXCEPT !.is_active = FALSE]
        ELSE ur[k]]

sweep_expired(ur, t) ==
    [k \in DOMAIN ur |->
        IF /\ ur[k].expires_at # NULL
           /\ ur[k].expires_at < t
           /\ ur[k].is_active = TRUE
        THEN [ur[k] EXCEPT !.is_active = FALSE]
        ELSE ur[k]]

cleanup_expired_roles ==
    /\ user_roles' = sweep_expired(user_roles, now)
    /\ last' = [op |-> "cleanup_expired_roles", ok |-> TRUE]
    /\ UNCHANGED <<configurator_tables, roles, role_permissions, permission_audit,
                   now, sessions>>

assign_permissions_to_role(role_id, permission_keys, assigned_by) ==
    /\ IF registered_keys(permission_keys) = {}
       THEN /\ last' = [op |-> "assign_permissions_to_role", role_id |-> role_id,
                        keys |-> permission_keys, ok |-> FALSE]
            /\ UNCHANGED <<role_permissions_mapping, role_audit_log>>
       ELSE /\ role_permissions_mapping' =
                   assign_each(role_hierarchy, role_permissions_mapping, role_id,
                               permission_keys, assigned_by, 1)
            /\ role_audit_log' =
                   log_role_action(role_audit_log, "assign_permissions", role_id,
                                   assigned_by, NULL, permission_keys)
            /\ last' = [op |-> "assign_permissions_to_role", role_id |-> role_id,
                        keys |-> permission_keys, ok |-> TRUE]
    /\ UNCHANGED <<role_hierarchy, manager_tables, now, sessions>>

(* revoke(roleId, permissionKey, actorId): sets granted = false on the row,
   which is kept, and writes the audit entry *)
revoke_permission(role_id, permission_key, actor_id) ==
    /\ <<role_id, permission_key>> \in DOMAIN role_permissions_mapping
    /\ role_permissions_mapping' =
           [role_permissions_mapping EXCEPT ![<<role_id, permission_key>>].granted = FALSE]
    /\ role_audit_log' =
           log_role_action(role_audit_log, "revoke_permission", role_id, actor_id,
                           NULL, <<permission_key>>)
    /\ last' = [op |-> "revoke_permission", role_id |-> role_id,
                keys |-> <<permission_key>>, ok |-> TRUE]
    /\ UNCHANGED <<role_hierarchy, manager_tables, now, sessions>>

----------------------------------------------------------------------------
(* Properties of the hierarchy *)

RECURSIVE reaches_root(_, _, _)
reaches_root(rh, r, fuel) ==
    IF r = NULL \/ r \notin DOMAIN rh THEN TRUE
    ELSE IF fuel = 0 THEN FALSE
    ELSE reaches_root(rh, rh[r].parent_role_id, fuel - 1)

Acyclic(rh) == \A r \in DOMAIN rh : reaches_root(rh, r, Cardinality(DOMAIN rh))

RECURSIVE ancestors(_, _, _)
ancestors(rh, r, fuel) ==
    IF r \notin DOMAIN rh \/ fuel = 0 THEN {}
    ELSE LET p == rh[r].parent_role_id IN
         IF p = NULL THEN {} ELSE {p} \cup ancestors(rh, p, fuel - 1)

IsDescendant(rh, d, r) == r \in ancestors(rh, d, Cardinality(DOMAIN rh))

----------------------------------------------------------------------------------------------------------------------------------------
(* The sequential model of RoleConfigurator, from the empty tables *)

NoCall == [op |-> "none", ok |-> FALSE]

IdleCall == [op |-> "none", role_id |-> NULL, new_parent_id |-> NULL,
             updated_by |-> NULL, old_parent |-> NULL, ok |-> FALSE]

IdleSessions == /\ pc = [p \in Sessions |-> "idle"]
                /\ call = [p \in Sessions |-> IdleCall]

EmptyManager == /\ roles = [r \in {} |-> NoCall]
                /\ role_permissions = {}
                /\ user_roles = [k \in {} |-> NoCall]
                /\ permission_audit = <<>>

Init ==
    /\ role_hierarchy = [r \in {} |-> NoCall]
    /\ role_permissions_mapping = [k \in {} |-> NoCall]
    /\ role_audit_log = <<>>
    /\ EmptyManager
    /\ now = 0
    /\ last = NoCall
    /\ IdleSessions

CreateRole ==
    /\ Len(role_audit_log) < MaxAudit
    /\ Cardinality(DOMAIN role_hierarchy) < MaxRoles
    /\ \E role_name \in RoleNames, parent_role_id \in {NULL} \cup RoleIds,
          level \in LevelArgs, inherit_permissions \in BOOLEAN, created_by \in Editors :
           create_role(role_name, parent_role_id, level, inherit_permissions, created_by)

UpdateRoleHierarchy ==
    /\ Len(role_audit_log) < MaxAudit
    /\ \E role_id \in RoleIds, new_parent_id \in {NULL} \cup RoleIds, updated_by \in Editors :
           update_role_hierarchy(role_id, new_parent_id, updated_by)

Next ==
    \/ CreateRole
    \/ UpdateRoleHierarchy

Spec == Init /\ [][Next]_vars

----------------------------------------------------------------------------
(* The deep model: update_role_hierarchy on a chain of up to DeepRoles roles,
   role i the child of role i - 1, as DeepRoles create_role calls leave it
   (levels as a recompute leaves them). *)

chain_of(n) ==
    [r \in 1..n |-> [role_name |-> ToString(r), parent_role_id |-> r - 1,
                     level |-> r - 1, inherit_permissions |-> TRUE,
                     is_active |-> TRUE]]

InitDeep ==
    /\ \E n \in 2..DeepRoles : role_hierarchy = chain_of(n)
    /\ role_permissions_mapping = [k \in {} |-> NoCall]
    /\ role_audit_log = <<>>
    /\ EmptyManager
    /\ now = 0
    /\ last = NoCall
    /\ IdleSessions

UpdateRoleHierarchyDeep ==
    /\ Len(role_audit_log) < MaxDeepCalls
    /\ \E role_id \in DOMAIN role_hierarchy,
          new_parent_id \in {NULL} \cup DOMAIN role_hierarchy, updated_by \in Editors :
           update_role_hierarchy(role_id, new_parent_id, updated_by)

NextDeep == UpdateRoleHierarchyDeep

SpecDeep == InitDeep /\ [][NextDeep]_vars

----------------------------------------------------------------------------
(* The concurrent model: each session runs one update_role_hierarchy call,
   one execute_query statement at a time; every statement commits alone. *)

(* every forest over the roles 1..MaxRoles, levels as a recompute leaves them *)
Forests ==
    {update_role_levels(
        [r \in RoleIds |-> [role_name |-> ToString(r), parent_role_id |-> f[r],
                            level |-> 0, inherit_permissions |-> TRUE,
                            is_active |-> TRUE]]) :
     f \in {g \in [RoleIds -> {NULL} \cup RoleIds] :
               Acyclic([r \in RoleIds |-> [parent_role_id |-> g[r]]])}}

InitConc ==
    /\ role_hierarchy \in Forests
    /\ role_permissions_mapping = [k \in {} |-> NoCall]
    /\ role_audit_log = <<>>
    /\ EmptyManager
    /\ now = 0
    /\ last = NoCall
    /\ IdleSessions

OtherTables == <<role_permissions_mapping, manager_tables, now, last>>

(* the call arrives; the sessions work on different roles *)
BeginUpdate(p) ==
    /\ pc[p] = "idle"
    /\ \E role_id \in RoleIds, new_parent_id \in {NULL} \cup RoleIds, updated_by \in Editors :
        /\ \A q \in Sessions \ {p} : call[q].role_id # role_id
        /\ call' = [call EXCEPT ![p] = [op |-> "update_role_hierarchy", role_id |-> role_id,
                                        new_parent_id |-> new_parent_id,
                                        updated_by |-> updated_by,
                                        old_parent |-> NULL, ok |-> FALSE]]
    /\ pc' = [pc EXCEPT ![p] = "check"]
    /\ UNCHANGED <<configurator_tables, OtherTables>>

(* if new_parent_id and self._would_create_cycle(role_id, new_parent_id) *)
CheckCycle(p) ==
    /\ pc[p] = "check"
    /\ IF call[p].new_parent_id # NULL
          /\ would_create_cycle(role_hierarchy, call[p].role_id, call[p].new_parent_id)
       THEN /\ pc' = [pc EXCEPT ![p] = "done"]
            /\ UNCHANGED call
       ELSE /\ pc' = [pc EXCEPT ![p] = "select"]
            /\ UNCHANGED call
    /\ UNCHANGED <<configurator_tables, OtherTables>>

SelectOldParent(p) ==
    /\ pc[p] = "select"
    /\ call' = [call EXCEPT ![p].old_parent = select_parent(role_hierarchy, call[p].role_id)]
    /\ pc' = [pc EXCEPT ![p] = "update"]
    /\ UNCHANGED <<configurator_tables, OtherTables>>

UpdateParent(p) ==
    /\ pc[p] = "update"
    /\ role_hierarchy' = update_parent(role_hierarchy, call[p].role_id, call[p].new_parent_id)
    /\ pc' = [pc EXCEPT ![p] = "levels"]
    /\ UNCHANGED <<role_permissions_mapping, role_audit_log, call, OtherTables>>

UpdateLevels(p) ==
    /\ pc[p] = "levels"
    /\ role_hierarchy' = update_role_levels(role_hierarchy)
    /\ pc' = [pc EXCEPT ![p] = "log"]
    /\ UNCHANGED <<role_permissions_mapping, role_audit_log, call, OtherTables>>

LogUpdate(p) ==
    /\ pc[p] = "log"
    /\ role_audit_log' = log_role_action(role_audit_log, "update_hierarchy", call[p].role_id,
                                         call[p].updated_by, call[p].old_parent,
                                         call[p].new_parent_id)
    /\ call' = [call EXCEPT ![p].ok = TRUE]
    /\ pc' = [pc EXCEPT ![p] = "done"]
    /\ UNCHANGED <<role_hierarchy, role_permissions_mapping, OtherTables>>

NextConc ==
    \E p \in Sessions :
        \/ BeginUpdate(p)
        \/ CheckCycle(p)
        \/ SelectOldParent(p)
        \/ UpdateParent(p)
        \/ UpdateLevels(p)
        \/ LogUpdate(p)

SpecConc == InitConc /\ [][NextConc]_vars

----------------------------------------------------------------------------
(* The read model of RoleConfigurator: get_role_permissions over every small
   content of role_hierarchy and role_permissions_mapping the schema admits. *)

(* forests as create_role builds them: the parent is an older role *)
CreatedForests ==
    {update_role_levels(
        [r \in RoleIds |-> [role_name |-> ToString(r), parent_role_id |-> f[r],
                            level |-> 0, inherit_permissions |-> i[r],
                            is_active |-> TRUE]]) :
     f \in {g \in [RoleIds -> {NULL} \cup RoleIds] : \A r \in RoleIds : g[r] < r},
     i \in [RoleIds -> BOOLEAN]}

ReadKey == "content.moderate"

(* rows as assign_permissions_to_role writes them, with or without an expiry,
   and a row with granted = FALSE *)
MappingRows ==
    [granted : {TRUE}, expires_at : ExpiryArgs, granted_by : Editors]
        \cup [granted : {FALSE}, expires_at : {NULL}, granted_by : Editors]

(* a row, or none, for ReadKey on every role *)
Mappings ==
    {[k \in {<<r, ReadKey>> : r \in held} |-> m[k[1]]] :
     held \in SUBSET RoleIds, m \in [RoleIds -> MappingRows]}

InitRead ==
    /\ role_hierarchy \in CreatedForests
    /\ role_permissions_mapping \in Mappings
    /\ role_audit_log = <<>>
    /\ EmptyManager
    /\ now = 0
    /\ last = NoCall
    /\ IdleSessions

GetRolePermissions ==
    /\ \E role_id \in RoleIds :
          last' = [op |-> "get_role_permissions", role_id |-> role_id, ok |-> TRUE,
                   result |-> get_role_permissions(role_hierarchy,
                                  role_permissions_mapping, now, role_id)]
    /\ UNCHANGED <<configurator_tables, manager_tables, now, sessions>>

(* time passes *)
Tick ==
    /\ now < MaxTime
    /\ now' = now + 1
    /\ last' = NoCall
    /\ UNCHANGED <<configurator_tables, manager_tables, sessions>>

NextRead ==
    \/ GetRolePermissions
    \/ Tick

SpecRead == InitRead /\ [][NextRead]_vars

----------------------------------------------------------------------------
(* The manager model: the default roles and the custom role exist, user 1 is
   the owner and user 2 holds the custom role. *)

EmptyConfigurator ==
    /\ role_hierarchy = [r \in {} |-> NoCall]
    /\ role_permissions_mapping = [k \in {} |-> NoCall]
    /\ role_audit_log = <<>>

InitManager ==
    /\ EmptyConfigurator
    /\ roles = default_roles
    /\ role_permissions = default_role_permissions
    /\ user_roles = [k \in {<<1, 3>>, <<2, 4>>} |->
                        [is_active |-> TRUE, expires_at |-> NULL, assigned_by |-> 1]]
    /\ permission_audit = <<>>
    /\ now = 0
    /\ last = NoCall
    /\ IdleSessions

AssignRoleToUser ==
    /\ Len(permission_audit) < MaxManagerCalls
    /\ \E assigner_id \in Users, user_id \in Users, role_name \in RoleNameArgs,
          expires_at \in ExpiryArgs :
           assign_role_to_user(assigner_id, user_id, role_name, expires_at)

RemoveRoleFromUser ==
    /\ Len(permission_audit) < MaxManagerCalls
    /\ \E remover_id \in Users, user_id \in Users, role_name \in RoleNameArgs :
           remove_role_from_user(remover_id, user_id, role_name)

PermissionArgs == {"roles.assign", "roles.create", "content.moderate"}

AssignNameArgs == {"moderator", "helper", "owner", "ghost"}

HasPermission ==
    /\ \E user_id \in Users, permission \in PermissionArgs :
          last' = [op |-> "has_permission", user_id |-> user_id,
                   permission |-> permission,
                   ok |-> has_permission(user_id, permission)]
    /\ UNCHANGED <<configurator_tables, manager_tables, now, sessions>>

GetUserPermissions ==
    /\ \E user_id \in Users :
          last' = [op |-> "get_user_permissions", user_id |-> user_id, ok |-> TRUE,
                   result |-> get_user_permissions(user_id)]
    /\ UNCHANGED <<configurator_tables, manager_tables, now, sessions>>

GetUserMaxPriority ==
    /\ \E user_id \in Users :
          last' = [op |-> "get_user_max_priority", user_id |-> user_id, ok |-> TRUE,
                   priority |-> get_user_max_priority(user_id)]
    /\ UNCHANGED <<configurator_tables, manager_tables, now, sessions>>

NextManager ==
    \/ AssignRoleToUser
    \/ RemoveRoleFromUser
    \/ cleanup_expired_roles
    \/ HasPermission
    \/ GetUserPermissions
    \/ GetUserMaxPriority
    \/ Tick

SpecManager == InitManager /\ [][NextManager]_vars

----------------------------------------------------------------------------
(* The resolution model: a chain of role_hierarchy 1 <- 2 <- ... with the
   inherit flags drawn, the same roles in the roles table, and ReadKey granted
   to drawn roles in role_permissions_mapping and in role_permissions; user 1
   holds drawn roles. *)

chain_with(n, inherits) ==
    [r \in 1..n |-> [role_name |-> ToString(r), parent_role_id |-> r - 1,
                     level |-> r - 1, inherit_permissions |-> inherits[r],
                     is_active |-> TRUE]]

InitResolve ==
    /\ \E inherits \in [RoleIds -> BOOLEAN] :
          role_hierarchy = chain_with(MaxRoles, inherits)
    /\ \E mapped \in SUBSET RoleIds :
          role_permissions_mapping =
              [k \in {<<r, ReadKey>> : r \in mapped} |->
                  [granted |-> TRUE, expires_at |-> NULL, granted_by |-> 1]]
    /\ role_audit_log = <<>>
    /\ roles = [r \in RoleIds |->
                   [role_name |-> ToString(r), priority |-> 30,
                    is_system |-> FALSE, is_active |-> TRUE]]
    /\ \E granted \in SUBSET RoleIds :
          role_permissions = {<<r, ReadKey>> : r \in granted}
    /\ \E held \in SUBSET RoleIds :
          user_roles = [k \in {<<1, r>> : r \in held} |->
                           [is_active |-> TRUE, expires_at |-> NULL, assigned_by |-> 1]]
    /\ permission_audit = <<>>
    /\ now = 0
    /\ last = NoCall
    /\ IdleSessions

NextResolve ==
    \/ HasPermission
    \/ GetUserPermissions
    \/ GetUserMaxPriority

SpecResolve == InitResolve /\ [][NextResolve]_vars

----------------------------------------------------------------------------
(* The priority model: the default roles with is_active drawn, and rows of
   user_roles drawn for user 1 (active or not, expiring or not). *)

UserRoleRows == [is_active : BOOLEAN, expires_at : ExpiryArgs, assigned_by : {1}]

InitPriority ==
    /\ EmptyConfigurator
    /\ \E active \in [DOMAIN default_roles -> BOOLEAN] :
          roles = [r \in DOMAIN default_roles |->
                      [default_roles[r] EXCEPT !.is_active = active[r]]]
    /\ role_permissions = default_role_permissions
    /\ \E held \in SUBSET DOMAIN default_roles,
          rows \in [DOMAIN default_roles -> UserRoleRows] :
          user_roles = [k \in {<<1, r>> : r \in held} |-> rows[k[2]]]
    /\ permission_audit = <<>>
    /\ now = 0
    /\ last = NoCall
    /\ IdleSessions

NextPriority ==
    \/ GetUserMaxPriority
    \/ Tick

SpecPriority == InitPriority /\ [][NextPriority]_vars

----------------------------------------------------------------------------
(* The grant model: two roles, 2 under 1, with the inherit flags drawn and a
   row for ReadKey, or none, drawn on each. *)

GrantRoles == {1, 2}

KeyListArgs == {<<ReadKey>>, <<"no.such.key">>}

InitGrant ==
    /\ \E inherits \in [GrantRoles -> BOOLEAN] :
          role_hierarchy = chain_with(Cardinality(GrantRoles), inherits)
    /\ \E held \in SUBSET GrantRoles, m \in [GrantRoles -> MappingRows] :
          role_permissions_mapping = [k \in {<<r, ReadKey>> : r \in held} |-> m[k[1]]]
    /\ role_audit_log = <<>>
    /\ EmptyManager
    /\ now = 0
    /\ last = NoCall
    /\ IdleSessions

AssignPermissionsToRole ==
    /\ Len(role_audit_log) < MaxGrantCalls
    /\ \E role_id \in RoleIds, permission_keys \in KeyListArgs, assigned_by \in Editors :
          assign_permissions_to_role(role_id, permission_keys, assigned_by)

RevokePermission ==
    /\ Len(role_audit_log) < MaxGrantCalls
    /\ \E role_id \in GrantRoles, actor_id \in Editors :
          revoke_permission(role_id, ReadKey, actor_id)

NextGrant ==
    \/ AssignPermissionsToRole
    \/ RevokePermission
    \/ GetRolePermissions
    \/ Tick

SpecGrant == InitGrant /\ [][NextGrant]_vars

----------------------------------------------------------------------------
(* The failure model: the four guarded mutations side by side.  The hierarchy
   is a chain of two; the roles are the default ones, moderator active or not; user 1
   is the owner and user 2 holds helper or moderator. *)

CustomNameArgs == {"vip", "x", "admin"}

PermissionListArgs == {<< >>, <<"roles.assign", "bogus.key">>}

PriorityArgs == {30, 95}

InitFrame ==
    /\ role_hierarchy = chain_of(Cardinality(GrantRoles))
    /\ role_permissions_mapping = [k \in {} |-> NoCall]
    /\ role_audit_log = <<>>
    /\ \E active \in BOOLEAN :
          roles = [r \in DOMAIN default_roles |->
                      IF r = 1 THEN [default_roles[r] EXCEPT !.is_active = active]
                      ELSE default_roles[r]]
    /\ role_permissions = default_role_permissions
    /\ \E r \in {1, 4} :
          user_roles = [k \in {<<1, 3>>, <<2, r>>} |->
                           [is_active |-> TRUE, expires_at |-> NULL, assigned_by |-> 1]]
    /\ permission_audit = <<>>
    /\ now = 0
    /\ last = NoCall
    /\ IdleSessions

(* at most MaxFrameCalls calls succeed; a call that fails is always possible *)
FrameBudget == Len(permission_audit') + Len(role_audit_log') <= MaxFrameCalls

FrameAssignRoleToUser ==
    \E assigner_id \in Users, user_id \in Users, role_name \in RoleNameArgs :
           /\ assign_role_to_user(assigner_id, user_id, role_name, NULL)
           /\ FrameBudget

FrameRemoveRoleFromUser ==
    \E remover_id \in Users, user_id \in Users, role_name \in RoleNameArgs :
           /\ remove_role_from_user(remover_id, user_id, role_name)
           /\ FrameBudget

FrameCreateCustomRole ==
    \E creator_id \in Users, role_name \in CustomNameArgs,
          permissions \in PermissionListArgs, priority \in PriorityArgs :
           /\ create_custom_role(creator_id, role_name, permissions, priority)
           /\ FrameBudget

FrameUpdateRoleHierarchy ==
    \E role_id \in DOMAIN role_hierarchy,
          new_parent_id \in {NULL} \cup DOMAIN role_hierarchy, updated_by \in Editors :
           /\ update_role_hierarchy(role_id, new_parent_id, updated_by)
           /\ FrameBudget

NextFrame ==
    \/ FrameAssignRoleToUser
    \/ FrameRemoveRoleFromUser
    \/ FrameCreateCustomRole
    \/ FrameUpdateRoleHierarchy

SpecFrame == InitFrame /\ [][NextFrame]_vars

----------------------------------------------------------------------------
(* create_custom_role one execute_query statement at a time *)

CreateReturn(p, ok, error) ==
    /\ call' = [call EXCEPT ![p].ok = ok, ![p].error = error]
    /\ pc' = [pc EXCEPT ![p] = "done"]

BeginCreate(p) ==
    /\ pc[p] = "idle"
    /\ \E creator_id \in Users, role_name \in CustomNameArgs,
          permissions \in PermissionListArgs, priority \in PriorityArgs :
          call' = [call EXCEPT ![p] =
                      [op |-> "create_custom_role", role_id |-> NULL,
                       creator_id |-> creator_id, role_name |-> role_name,
                       permissions |-> permissions, priority |-> priority,
                       i |-> 1, ok |-> FALSE, error |-> ""]]
    /\ pc' = [pc EXCEPT ![p] = "permission"]
    /\ UNCHANGED <<configurator_tables, manager_tables, now, last>>

(* if not self.has_permission(creator_id, 'roles.create'); then the length of
   the name *)
CreateCheckPermission(p) ==
    /\ pc[p] = "permission"
    /\ IF ~has_permission(call[p].creator_id, "roles.create")
       THEN CreateReturn(p, FALSE, "Insufficient permissions to create roles")
       ELSE IF name_too_short(call[p].role_name)
       THEN CreateReturn(p, FALSE, "Role name must be at least 2 characters")
       ELSE pc' = [pc EXCEPT ![p] = "existing"] /\ UNCHANGED call
    /\ UNCHANGED <<configurator_tables, manager_tables, now, last>>

(* SELECT role_id FROM roles WHERE role_name = %s *)
CreateCheckExisting(p) ==
    /\ pc[p] = "existing"
    /\ IF role_named(call[p].role_name) # {}
       THEN CreateReturn(p, FALSE, "Role name already exists")
       ELSE pc' = [pc EXCEPT ![p] = "insert"] /\ UNCHANGED call
    /\ UNCHANGED <<configurator_tables, manager_tables, now, last>>

(* INSERT INTO roles ... RETURNING role_id; if result.empty: failure *)
CreateInsertRole(p) ==
    /\ pc[p] = "insert"
    /\ roles' = insert_custom_role(roles, call[p].role_name, call[p].priority)
    /\ IF roles' = roles
       THEN CreateReturn(p, FALSE, "Failed to create role")
       ELSE /\ call' = [call EXCEPT ![p].role_id = Cardinality(DOMAIN roles) + 1]
            /\ pc' = [pc EXCEPT ![p] = "permissions"]
    /\ UNCHANGED <<configurator_tables, role_permissions, user_roles, permission_audit,
                   now, last>>

(* for perm_name in valid_perms: SELECT permission_id ...; INSERT INTO
   role_permissions (role_id, permission_id, granted_by) *)
CreateInsertPermission(p) ==
    /\ pc[p] = "permissions"
    /\ call[p].i <= Len(call[p].permissions)
    /\ role_permissions' =
           IF call[p].permissions[call[p].i] \in valid_perms(call[p].permissions)
           THEN role_permissions \cup {<<call[p].role_id, call[p].permissions[call[p].i]>>}
           ELSE role_permissions
    /\ call' = [call EXCEPT ![p].i = call[p].i + 1]
    /\ UNCHANGED <<configurator_tables, roles, user_roles, permission_audit, now, last, pc>>

(* self._log_permission_action(creator_id, 'role_created', 'role', role_id,
   'roles.create'); return success *)
CreateLog(p) ==
    /\ pc[p] = "permissions"
    /\ call[p].i > Len(call[p].permissions)
    /\ permission_audit' =
           log_permission_action(permission_audit, call[p].creator_id,
               "role_created", "role", call[p].role_id, "roles.create")
    /\ CreateReturn(p, TRUE, "")
    /\ UNCHANGED <<configurator_tables, roles, role_permissions, user_roles, now, last>>

----------------------------------------------------------------------------
(* The fault model: one call of update_role_hierarchy or create_custom_role,
   statement by statement, in which one execute_query may fail.  A failed
   statement changes nothing in the store; execute_query logs the error and
   returns an empty frame (fetch) or False. *)

StoreFailure(p, statement) ==
    /\ last = NoCall
    /\ last' = [op |-> "store_failure", ok |-> FALSE, session |-> p,
                statement |-> statement]

(* _would_create_cycle: len(result) > 0 is False on the empty frame *)
CheckCycleFails(p) ==
    /\ pc[p] = "check"
    /\ call[p].new_parent_id # NULL
    /\ StoreFailure(p, "would_create_cycle")
    /\ pc' = [pc EXCEPT ![p] = "select"]
    /\ UNCHANGED <<configurator_tables, manager_tables, now, call>>

UpdateParentFails(p) ==
    /\ pc[p] = "update"
    /\ StoreFailure(p, "update_parent")
    /\ pc' = [pc EXCEPT ![p] = "levels"]
    /\ UNCHANGED <<configurator_tables, manager_tables, now, call>>

(* _update_role_levels: the exception is caught and printed *)
UpdateLevelsFails(p) ==
    /\ pc[p] = "levels"
    /\ StoreFailure(p, "update_role_levels")
    /\ pc' = [pc EXCEPT ![p] = "log"]
    /\ UNCHANGED <<configurator_tables, manager_tables, now, call>>

(* _log_role_action: except Exception: pass; return True *)
LogUpdateFails(p) ==
    /\ pc[p] = "log"
    /\ StoreFailure(p, "log_role_action")
    /\ call' = [call EXCEPT ![p].ok = TRUE]
    /\ pc' = [pc EXCEPT ![p] = "done"]
    /\ UNCHANGED <<configurator_tables, manager_tables, now>>

(* has_permission: if result.empty: return False *)
CreateCheckPermissionFails(p) ==
    /\ pc[p] = "permission"
    /\ StoreFailure(p, "has_permission")
    /\ CreateReturn(p, FALSE, "Insufficient permissions to create roles")
    /\ UNCHANGED <<configurator_tables, manager_tables, now>>

(* existing.empty holds on the empty frame *)
CreateCheckExistingFails(p) ==
    /\ pc[p] = "existing"
    /\ StoreFailure(p, "select_existing")
    /\ pc' = [pc EXCEPT ![p] = "insert"]
    /\ UNCHANGED <<configurator_tables, manager_tables, now, call>>

CreateInsertRoleFails(p) ==
    /\ pc[p] = "insert"
    /\ StoreFailure(p, "insert_role")
    /\ CreateReturn(p, FALSE, "Failed to create role")
    /\ UNCHANGED <<configurator_tables, manager_tables, now>>

CreateInsertPermissionFails(p) ==
    /\ pc[p] = "permissions"
    /\ call[p].i <= Len(call[p].permissions)
    /\ StoreFailure(p, "insert_role_permission")
    /\ call' = [call EXCEPT ![p].i = call[p].i + 1]
    /\ UNCHANGED <<configurator_tables, manager_tables, now, pc>>

CreateLogFails(p) ==
    /\ pc[p] = "permissions"
    /\ call[p].i > Len(call[p].permissions)
    /\ StoreFailure(p, "log_permission_action")
    /\ CreateReturn(p, TRUE, "")
    /\ UNCHANGED <<configurator_tables, manager_tables, now>>

InitFault ==
    /\ role_hierarchy \in Forests
    /\ role_permissions_mapping = [k \in {} |-> NoCall]
    /\ role_audit_log = <<>>
    /\ roles = default_roles
    /\ role_permissions = default_role_permissions
    /\ user_roles = [k \in {<<1, 3>>, <<2, 4>>} |->
                        [is_active |-> TRUE, expires_at |-> NULL, assigned_by |-> 1]]
    /\ permission_audit = <<>>
    /\ now = 0
    /\ last = NoCall
    /\ IdleSessions

NextFault ==
    \/ BeginUpdate(1)
    \/ CheckCycle(1)
    \/ SelectOldParent(1)
    \/ UpdateParent(1)
    \/ UpdateLevels(1)
    \/ LogUpdate(1)
    \/ CheckCycleFails(1)
    \/ UpdateParentFails(1)
    \/ UpdateLevelsFails(1)
    \/ LogUpdateFails(1)
    \/ BeginCreate(1)
    \/ CreateCheckPermission(1)
    \/ CreateCheckExisting(1)
    \/ CreateInsertRole(1)
    \/ CreateInsertPermission(1)
    \/ CreateLog(1)
    \/ CreateCheckPermissionFails(1)
    \/ CreateCheckExistingFails(1)
    \/ CreateInsertRoleFails(1)
    \/ CreateInsertPermissionFails(1)
    \/ CreateLogFails(1)

SpecFault == InitFault /\ [][NextFault]_vars

----------------------------------------------------------------------------
(* The audit model: the six logged mutations of both classes, from the start
   states of the failure model. *)

AuditBudget == Len(permission_audit) + Len(role_audit_log) < MaxAuditCalls

AuditCreateRole ==
    /\ AuditBudget
    /\ \E role_name \in RoleNames, parent_role_id \in {NULL, 1}, created_by \in Editors :
           create_role(role_name, parent_role_id, 0, TRUE, created_by)

AuditAssignPermissionsToRole ==
    /\ AuditBudget
    /\ \E role_id \in GrantRoles, permission_keys \in KeyListArgs, assigned_by \in Editors :
           assign_permissions_to_role(role_id, permission_keys, assigned_by)

AuditUpdateRoleHierarchy ==
    /\ AuditBudget
    /\ \E role_id \in GrantRoles, new_parent_id \in {NULL} \cup GrantRoles,
          updated_by \in Editors :
           update_role_hierarchy(role_id, new_parent_id, updated_by)

AuditAssignRoleToUser ==
    /\ AuditBudget
    /\ \E assigner_id \in Users, user_id \in Users, role_name \in {"moderator", "helper"} :
           assign_role_to_user(assigner_id, user_id, role_name, NULL)

AuditRemoveRoleFromUser ==
    /\ AuditBudget
    /\ \E remover_id \in Users, user_id \in Users, role_name \in {"moderator", "helper"} :
           remove_role_from_user(remover_id, user_id, role_name)

AuditCreateCustomRole ==
    /\ AuditBudget
    /\ \E creator_id \in Users, role_name \in CustomNameArgs,
          permissions \in PermissionListArgs :
           create_custom_role(creator_id, role_name, permissions, 30)

NextAudit ==
    \/ AuditCreateRole
    \/ AuditAssignPermissionsToRole
    \/ AuditUpdateRoleHierarchy
    \/ AuditAssignRoleToUser
    \/ AuditRemoveRoleFromUser
    \/ AuditCreateCustomRole

SpecAudit == InitFrame /\ [][NextAudit]_vars

----------------------------------------------------------------------------
(* The naming model: two sessions run create_custom_role statement by
   statement while create_role, one statement, adds roles to role_hierarchy. *)

InitNames ==
    /\ EmptyConfigurator
    /\ roles = default_roles
    /\ role_permissions = default_role_permissions
    /\ user_roles = [k \in {<<1, 3>>, <<2, 4>>} |->
                        [is_active |-> TRUE, expires_at |-> NULL, assigned_by |-> 1]]
    /\ permission_audit = <<>>
    /\ now = 0
    /\ last = NoCall
    /\ IdleSessions

CreateRoleNamed ==
    /\ Cardinality(DOMAIN role_hierarchy) < MaxRoles
    /\ \E role_name \in RoleNames, created_by \in Editors :
           create_role(role_name, NULL, 0, TRUE, created_by)

NextNames ==
    \/ CreateRoleNamed
    \/ \E p \in Sessions :
        \/ BeginCreate(p)
        \/ CreateCheckPermission(p)
        \/ CreateCheckExisting(p)
        \/ CreateInsertRole(p)
        \/ CreateInsertPermission(p)
        \/ CreateLog(p)

SpecNames == InitNames /\ [][NextNames]_vars

----------------------------------------------------------------------------
(* The authority model: the role-creating, reparenting and granting calls of
   both classes with the actor drawn from the users; user 1 is the owner
   (every key), user 2 holds helper or moderator (neither roles.create nor
   roles.edit). *)

AuthorityCreateRole ==
    /\ AuditBudget
    /\ \E role_name \in RoleNames, created_by \in Users :
           create_role(role_name, NULL, 0, TRUE, created_by)

AuthorityUpdateRoleHierarchy ==
    /\ AuditBudget
    /\ \E role_id \in GrantRoles, new_parent_id \in {NULL} \cup GrantRoles,
          updated_by \in Users :
           update_role_hierarchy(role_id, new_parent_id, updated_by)

AuthorityAssignPermissionsToRole ==
    /\ AuditBudget
    /\ \E role_id \in GrantRoles, permission_keys \in KeyListArgs, assigned_by \in Users :
           assign_permissions_to_role(role_id, permission_keys, assigned_by)

AuthorityCreateCustomRole ==
    /\ AuditBudget
    /\ \E creator_id \in Users, role_name \in CustomNameArgs,
          permissions \in PermissionListArgs :
           create_custom_role(creator_id, role_name, permissions, 30)

NextAuthority ==
    \/ AuthorityCreateRole
    \/ AuthorityUpdateRoleHierarchy
    \/ AuthorityAssignPermissionsToRole
    \/ AuthorityCreateCustomRole

SpecAuthority == InitFrame /\ [][NextAuthority]_vars

----------------------------------------------------------------------------
(* The sweep model: the rows of the priority model for user 1, and for user 2
   an active assignment of moderator that expires at 1; cleanup_expired_roles
   runs at any time. *)

InitSweep ==
    /\ EmptyConfigurator
    /\ \E active \in [DOMAIN default_roles -> BOOLEAN] :
          roles = [r \in DOMAIN default_roles |->
                      [default_roles[r] EXCEPT !.is_active = active[r]]]
    /\ role_permissions = default_role_permissions
    /\ \E held \in SUBSET DOMAIN default_roles,
          rows \in [DOMAIN default_roles -> UserRoleRows] :
          user_roles = [k \in {<<1, r>> : r \in held} \cup {<<2, 1>>} |->
                           IF k[1] = 1 THEN rows[k[2]]
                           ELSE [is_active |-> TRUE, expires_at |-> 1, assigned_by |-> 1]]
    /\ permission_audit = <<>>
    /\ now = 0
    /\ last = NoCall
    /\ IdleSessions

NextSweep ==
    \/ cleanup_expired_roles
    \/ Tick

SpecSweep == InitSweep /\ [][NextSweep]_vars

----------------------------------------------------------------------------
(* The key model: assign_permissions_to_role with lists that mix registered
   and unknown keys, next to create_custom_role run statement by statement
   with its mixed list. *)

MixedKeyListArgs ==
    {<<"content.moderate", "no.such.key">>, <<"no.such.key", "roles.edit">>,
     <<"no.such.key">>}

InitKeys ==
    /\ role_hierarchy = chain_of(Cardinality(GrantRoles))
    /\ role_permissions_mapping = [k \in {} |-> NoCall]
    /\ role_audit_log = <<>>
    /\ roles = default_roles
    /\ role_permissions = default_role_permissions
    /\ user_roles = [k \in {<<1, 3>>, <<2, 4>>} |->
                        [is_active |-> TRUE, expires_at |-> NULL, assigned_by |-> 1]]
    /\ permission_audit = <<>>
    /\ now = 0
    /\ last = NoCall
    /\ IdleSessions

AssignMixedKeys ==
    /\ Len(role_audit_log) < MaxGrantCalls
    /\ \E role_id \in GrantRoles, permission_keys \in MixedKeyListArgs,
          assigned_by \in Editors :
           assign_permissions_to_role(role_id, permission_keys, assigned_by)

NextKeys ==
    \/ AssignMixedKeys
    \/ \E p \in Sessions :
        \/ BeginCreate(p)
        \/ CreateCheckPermission(p)
        \/ CreateCheckExisting(p)
        \/ CreateInsertRole(p)
        \/ CreateInsertPermission(p)
        \/ CreateLog(p)

SpecKeys == InitKeys /\ [][NextKeys]_vars

----------------------------------------------------------------------------
(* The parent model: create_role under a parent that is missing, active or
   inactive.  The two roles of the start state have is_active as the column
   admits it, TRUE or FALSE. *)

ParentArgs == {NULL} \cup 1..(MaxRoles + 2)

InitParent ==
    /\ \E active \in [GrantRoles -> BOOLEAN] :
          role_hierarchy =
              [r \in GrantRoles |->
                  [chain_of(Cardinality(GrantRoles))[r] EXCEPT !.is_active = active[r]]]
    /\ role_permissions_mapping = [k \in {} |-> NoCall]
    /\ role_audit_log = <<>>
    /\ EmptyManager
    /\ now = 0
    /\ last = NoCall
    /\ IdleSessions

CreateRoleUnder ==
    /\ Cardinality(DOMAIN role_hierarchy) <= MaxRoles
    /\ \E role_name \in RoleNames, parent_role_id \in ParentArgs,
          level \in LevelArgs, inherit_permissions \in BOOLEAN, created_by \in Editors :
           create_role(role_name, parent_role_id, level, inherit_permissions, created_by)

SpecParent == InitParent /\ [][CreateRoleUnder]_vars

----------------------------------------------------------------------------
(* The escalation model: sequences of assign_role_to_user among two users who
   each start with one of the default roles. *)

InitEscalate ==
    /\ EmptyConfigurator
    /\ roles = default_roles
    /\ role_permissions = default_role_permissions
    /\ \E held \in [Users -> DOMAIN default_roles] :
          user_roles = [k \in {<<u, held[u]>> : u \in Users} |->
                           [is_active |-> TRUE, expires_at |-> NULL, assigned_by |-> 1]]
    /\ permission_audit = <<>>
    /\ now = 0
    /\ last = NoCall
    /\ IdleSessions

EscalateAssignRoleToUser ==
    /\ Len(permission_audit) < MaxGrantCalls
    /\ \E assigner_id \in Users, user_id \in Users, role_name \in RoleNameArgs :
           assign_role_to_user(assigner_id, user_id, role_name, NULL)

SpecEscalate == InitEscalate /\ [][EscalateAssignRoleToUser]_vars

----------------------------------------------------------------------------
(* assign_role_to_user one execute_query statement at a time *)

AssignReturn(p, ok, error) ==
    /\ call' = [call EXCEPT ![p].ok = ok, ![p].error = error]
    /\ pc' = [pc EXCEPT ![p] = "done"]

BeginAssign(p) ==
    /\ pc[p] = "idle"
    /\ \E assigner_id \in Users, user_id \in Users, role_name \in AssignNameArgs :
          call' = [call EXCEPT ![p] =
                      [op |-> "assign_role_to_user", assigner_id |-> assigner_id,
                       user_id |-> user_id, role_name |-> role_name,
                       role_id |-> NULL, role_priority |-> 0, inserted |-> FALSE,
                       ok |-> FALSE, error |-> ""]]
    /\ pc' = [pc EXCEPT ![p] = "assign_permission"]
    /\ UNCHANGED <<configurator_tables, manager_tables, now, last>>

(* if not self.has_permission(assigner_id, 'roles.assign') *)
AssignCheckPermission(p) ==
    /\ pc[p] = "assign_permission"
    /\ IF ~has_permission(call[p].assigner_id, "roles.assign")
       THEN AssignReturn(p, FALSE, "Insufficient permissions to assign roles")
       ELSE pc' = [pc EXCEPT ![p] = "assign_role"] /\ UNCHANGED call
    /\ UNCHANGED <<configurator_tables, manager_tables, now, last>>

(* SELECT role_id, priority FROM roles WHERE role_name = %s AND is_active = TRUE *)
AssignSelectRole(p) ==
    /\ pc[p] = "assign_role"
    /\ IF active_role_named(call[p].role_name) = {}
       THEN AssignReturn(p, FALSE, "Role not found")
       ELSE LET role_id == CHOOSE r \in active_role_named(call[p].role_name) : TRUE IN
            /\ call' = [call EXCEPT ![p].role_id = role_id,
                                    ![p].role_priority = roles[role_id].priority]
            /\ pc' = [pc EXCEPT ![p] = "assign_priority"]
    /\ UNCHANGED <<configurator_tables, manager_tables, now, last>>

(* assigner_max_priority = self.get_user_max_priority(assigner_id); if
   role_priority >= assigner_max_priority: failure *)
AssignCheckPriority(p) ==
    /\ pc[p] = "assign_priority"
    /\ IF ~may_assign(call[p].role_priority, get_user_max_priority(call[p].assigner_id))
       THEN AssignReturn(p, FALSE, "Cannot assign role with equal or higher priority")
       ELSE pc' = [pc EXCEPT ![p] = "assign_existing"] /\ UNCHANGED call
    /\ UNCHANGED <<configurator_tables, manager_tables, now, last>>

(* SELECT id FROM user_roles WHERE user_id = %s AND role_id = %s AND
   is_active = TRUE; if not existing.empty: failure *)
AssignCheckExisting(p) ==
    /\ pc[p] = "assign_existing"
    /\ IF already_has_role(call[p].user_id, call[p].role_id)
       THEN AssignReturn(p, FALSE, "User already has this role")
       ELSE pc' = [pc EXCEPT ![p] = "assign_insert"] /\ UNCHANGED call
    /\ UNCHANGED <<configurator_tables, manager_tables, now, last>>

insert_user_role_ok_always(ur, user_id, role_id) == TRUE

(* the INSERT adds its row unless UNIQUE(user_id, role_id) rejects it *)
insert_user_role_ok(ur, user_id, role_id) == <<user_id, role_id>> \notin DOMAIN ur

(* INSERT INTO user_roles (user_id, role_id, assigned_by, expires_at); the
   return value of execute_query is not looked at *)
AssignInsert(p) ==
    /\ pc[p] = "assign_insert"
    /\ user_roles' = insert_user_role(user_roles, call[p].user_id, call[p].role_id,
                                      call[p].assigner_id, NULL)
    /\ call' = [call EXCEPT ![p].inserted =
                   insert_user_role_ok(user_roles, call[p].user_id, call[p].role_id)]
    /\ pc' = [pc EXCEPT ![p] = "assign_log"]
    /\ UNCHANGED <<configurator_tables, roles, role_permissions, permission_audit,
                   now, last>>

(* self._log_permission_action(assigner_id, 'role_assigned', 'user', user_id,
   'roles.assign'); return success *)
AssignLog(p) ==
    /\ pc[p] = "assign_log"
    /\ permission_audit' =
           log_permission_action(permission_audit, call[p].assigner_id,
               "role_assigned", "user", call[p].user_id, "roles.assign")
    /\ AssignReturn(p, TRUE, "")
    /\ UNCHANGED <<configurator_tables, roles, role_permissions, user_roles, now, last>>

----------------------------------------------------------------------------
(* The race model: two sessions run assign_role_to_user statement by
   statement, from the bootstrapped roles with user 1 the owner and user 2
   holding helper. *)

NextRace ==
    \E p \in Sessions :
        \/ BeginAssign(p)
        \/ AssignCheckPermission(p)
        \/ AssignSelectRole(p)
        \/ AssignCheckPriority(p)
        \/ AssignCheckExisting(p)
        \/ AssignInsert(p)
        \/ AssignLog(p)

SpecRace == InitManager /\ [][NextRace]_vars

----------------------------------------------------------------------------
(* Claims *)

(* C1: after any accepted sequence of create_role and update_role_hierarchy
   calls, from an acyclic hierarchy of any depth, following parent pointers
   from any role reaches a role with no parent. *)
C1_Acyclic == Acyclic(role_hierarchy)

(* C2: update_role_hierarchy(role_id, new_parent_id) returns False if and only
   if new_parent_id is role_id or a descendant of role_id; every other
   reparent, to no parent included, is accepted. *)
C2_RejectedIffDescendant ==
    [][last'.op = "update_role_hierarchy" =>
          (~last'.ok <=>
              \/ last'.parent_role_id = last'.role_id
              \/ IsDescendant(role_hierarchy, last'.parent_role_id, last'.role_id))]_vars

(* C3: when two update_role_hierarchy calls on different roles have both
   finished, however their statements interleaved, the hierarchy is acyclic. *)
C3_ConcurrentAcyclic ==
    (\A p \in Sessions : pc[p] = "done") => Acyclic(role_hierarchy)

(* C4: after an accepted create_role or update_role_hierarchy every role has
   level 0 without a parent and level(parent) + 1 with one. *)
LevelsConsistent(rh) ==
    \A r \in DOMAIN rh :
        rh[r].level = IF rh[r].parent_role_id = NULL THEN 0
                      ELSE rh[rh[r].parent_role_id].level + 1

C4_LevelsConsistent ==
    (last.op \in {"create_role", "update_role_hierarchy"} /\ last.ok)
        => LevelsConsistent(role_hierarchy)

(* C5: get_role_permissions(R) is the inheritance closure C(R): the keys with
   a granted, unexpired mapping row on R, plus C(parent(R)) when R inherits
   and has a parent; a role that does not inherit gets nothing from above. *)
OwnPermissions(r) ==
    {k \in permission_registry :
        /\ <<r, k>> \in DOMAIN role_permissions_mapping
        /\ role_permissions_mapping[<<r, k>>].granted
        /\ \/ role_permissions_mapping[<<r, k>>].expires_at = NULL
           \/ now < role_permissions_mapping[<<r, k>>].expires_at}

RECURSIVE Closure(_, _)
Closure(r, fuel) ==
    IF fuel = 0 THEN {}
    ELSE OwnPermissions(r) \cup
         (IF role_hierarchy[r].inherit_permissions /\ role_hierarchy[r].parent_role_id # NULL
          THEN Closure(role_hierarchy[r].parent_role_id, fuel - 1)
          ELSE {})

C5_PermissionsAreClosure ==
    last.op = "get_role_permissions" =>
        last.result = Closure(last.role_id, Cardinality(DOMAIN role_hierarchy))

(* a role that does not inherit was read while its parent holds a live grant *)
C5_Witness ==
    /\ last.op = "get_role_permissions"
    /\ \E r \in DOMAIN role_hierarchy :
          /\ ~role_hierarchy[r].inherit_permissions
          /\ role_hierarchy[r].parent_role_id # NULL
          /\ OwnPermissions(role_hierarchy[r].parent_role_id) # {}
          /\ last.role_id = r
          /\ last.result = {}

(* C6: with a chain C -> B -> A of role_hierarchy, every role inheriting, a
   key granted only to A and a user whose only active assignment is C,
   has_permission(user, key) is true; with B not inheriting it is false. *)
C6_InheritedThroughChain ==
    (/\ last.op = "has_permission"
     /\ last.permission = ReadKey
     /\ DOMAIN role_permissions_mapping = {<<1, ReadKey>>}
     /\ role_permissions = {<<1, ReadKey>>}
     /\ {k \in DOMAIN user_roles : k[1] = last.user_id} = {<<last.user_id, 3>>})
        => /\ (\A r \in 1..3 : role_hierarchy[r].inherit_permissions) => last.ok
           /\ ~role_hierarchy[2].inherit_permissions => ~last.ok

(* C7: assign_role_to_user succeeds or writes an assignment only if the
   assigner holds roles.assign and the assigner's highest priority is strictly
   above the role's; with equal priorities it fails and writes nothing. *)
C7_AssignNeedsAuthority ==
    [][last'.op = "assign_role_to_user" =>
        /\ (last'.ok \/ user_roles' # user_roles) =>
              /\ has_permission(last'.actor, "roles.assign")
              /\ \E r \in role_named(last'.role_name) :
                    get_user_max_priority(last'.actor) > roles[r].priority
        /\ (\E r \in role_named(last'.role_name) :
                get_user_max_priority(last'.actor) = roles[r].priority)
              => (~last'.ok /\ user_roles' = user_roles)]_vars

(* an assignment was made: the row of the last call is there, written by the
   assigner *)
C7_Witness ==
    /\ last.op = "assign_role_to_user"
    /\ last.ok
    /\ \E r \in role_named(last.role_name) :
          /\ <<last.user_id, r>> \in DOMAIN user_roles
          /\ user_roles[<<last.user_id, r>>].is_active
          /\ user_roles[<<last.user_id, r>>].assigned_by = last.actor
          /\ last.actor # last.user_id

(* C8: remove_role_from_user deactivates an assignment only if the remover
   holds roles.assign and, when the role is a system role (whatever its name),
   the remover's highest priority is strictly above the role's. *)
C8_RemoveNeedsAuthority ==
    [][(last'.op = "remove_role_from_user" /\ user_roles' # user_roles) =>
        /\ has_permission(last'.actor, "roles.assign")
        /\ \A r \in role_named(last'.role_name) :
              roles[r].is_system =>
                  get_user_max_priority(last'.actor) > roles[r].priority]_vars

(* C9: an otherwise valid assign_role_to_user fails with the conflict exactly
   when the user has an assignment of the role that is neither removed nor
   expired, and then no row is written. *)
HasLiveAssignment(user_id, role_name) ==
    \E r \in active_role_named(role_name) :
        /\ <<user_id, r>> \in DOMAIN user_roles
        /\ user_roles[<<user_id, r>>].is_active
        /\ \/ user_roles[<<user_id, r>>].expires_at = NULL
           \/ now < user_roles[<<user_id, r>>].expires_at

C9_ConflictIffActive ==
    [][(/\ last'.op = "assign_role_to_user"
        /\ has_permission(last'.actor, "roles.assign")
        /\ \E r \in active_role_named(last'.role_name) :
              get_user_max_priority(last'.actor) > roles[r].priority)
        => /\ (~last'.ok /\ last'.error = "User already has this role")
                  <=> HasLiveAssignment(last'.user_id, last'.role_name)
           /\ HasLiveAssignment(last'.user_id, last'.role_name)
                  => user_roles' = user_roles]_vars

(* C10: what has_permission, get_user_permissions and get_user_max_priority
   return comes from assignments whose expires_at has not passed, whether or
   not cleanup_expired_roles has marked the others inactive. *)
UnexpiredRoles(user_id) ==
    {r \in DOMAIN roles :
        /\ <<user_id, r>> \in DOMAIN user_roles
        /\ \/ user_roles[<<user_id, r>>].expires_at = NULL
           \/ now < user_roles[<<user_id, r>>].expires_at}

C10_ExpiredContributesNothing ==
    /\ (last.op = "has_permission" /\ last.ok) =>
           \E r \in UnexpiredRoles(last.user_id) : <<r, last.permission>> \in role_permissions
    /\ last.op = "get_user_permissions" =>
           \A p \in last.result :
               \E r \in UnexpiredRoles(last.user_id) : <<r, p>> \in role_permissions
    /\ last.op = "get_user_max_priority" =>
           \/ last.priority = 0
           \/ \E r \in UnexpiredRoles(last.user_id) : roles[r].priority = last.priority

(* has_permission answered no for a key that only an expired assignment, not
   yet marked inactive, would give *)
C10_Witness ==
    /\ last.op = "has_permission"
    /\ ~last.ok
    /\ \E r \in DOMAIN roles :
          /\ <<last.user_id, r>> \in DOMAIN user_roles
          /\ user_roles[<<last.user_id, r>>].is_active
          /\ user_roles[<<last.user_id, r>>].expires_at # NULL
          /\ user_roles[<<last.user_id, r>>].expires_at <= now
          /\ <<r, last.permission>> \in role_permissions

(* C11: get_user_max_priority(u) is the greatest priority among the roles r
   with r.is_active and an active, unexpired assignment of u, and 0 when there
   is no such role. *)
QualifyingPriorities(user_id) ==
    {roles[r].priority : r \in
        {q \in DOMAIN roles :
            /\ roles[q].is_active
            /\ <<user_id, q>> \in DOMAIN user_roles
            /\ user_roles[<<user_id, q>>].is_active
            /\ \/ user_roles[<<user_id, q>>].expires_at = NULL
               \/ now < user_roles[<<user_id, q>>].expires_at}}

C11_MaxPriority ==
    last.op = "get_user_max_priority" =>
        IF QualifyingPriorities(last.user_id) = {} THEN last.priority = 0
        ELSE /\ last.priority \in QualifyingPriorities(last.user_id)
             /\ \A x \in QualifyingPriorities(last.user_id) : x <= last.priority

(* the user's owner assignment is active and unexpired but the owner role is
   inactive, and the answer is the priority of a lower role *)
C11_Witness ==
    /\ last.op = "get_user_max_priority"
    /\ <<last.user_id, 3>> \in DOMAIN user_roles
    /\ user_roles[<<last.user_id, 3>>].is_active
    /\ user_roles[<<last.user_id, 3>>].expires_at = NULL
    /\ ~roles[3].is_active
    /\ last.priority = 50

(* C12: once a grant of a key to a role is revoked (the row kept with
   granted = FALSE), no read resolves the key through that row: every key a
   read returns has a row with granted = TRUE on some role. *)
C12_RevokedContributesNothing ==
    last.op = "get_role_permissions" =>
        \A k \in last.result :
            \E r \in DOMAIN role_hierarchy :
                /\ <<r, k>> \in DOMAIN role_permissions_mapping
                /\ role_permissions_mapping[<<r, k>>].granted

(* ReadKey was granted to role 1 and then revoked, and role 2, which inherits
   from role 1 and has no row of its own, was read without it *)
C12_Witness ==
    /\ last.op = "get_role_permissions"
    /\ last.role_id = 2
    /\ role_hierarchy[2].inherit_permissions
    /\ Len(role_audit_log) = 2
    /\ role_audit_log[1].action_type = "assign_permissions"
    /\ role_audit_log[1].role_id = 1
    /\ role_audit_log[2].action_type = "revoke_permission"
    /\ role_audit_log[2].role_id = 1
    /\ DOMAIN role_permissions_mapping = {<<1, ReadKey>>}
    /\ ~role_permissions_mapping[<<1, ReadKey>>].granted
    /\ last.result = {}

(* C13: a second assign_permissions_to_role with the arguments of the call
   before it adds no row, leaves the row of every registered key granted, and
   leaves what get_role_permissions resolves for the role unchanged. *)
C13_GrantTwice ==
    [][(/\ last.op = "assign_permissions_to_role"
        /\ last.ok
        /\ last' = last
        /\ last.role_id \in DOMAIN role_hierarchy)
        => /\ DOMAIN role_permissions_mapping' = DOMAIN role_permissions_mapping
           /\ \A k \in registered_keys(last.keys) :
                 /\ <<last.role_id, k>> \in DOMAIN role_permissions_mapping'
                 /\ role_permissions_mapping'[<<last.role_id, k>>].granted
           /\ get_role_permissions(role_hierarchy', role_permissions_mapping', now',
                                   last.role_id)
                = get_role_permissions(role_hierarchy, role_permissions_mapping, now,
                                       last.role_id)]_vars

(* the same grant was made twice in a row on a role that had no row *)
C13_Witness ==
    /\ last.op = "assign_permissions_to_role"
    /\ last.ok
    /\ Len(role_audit_log) = 2
    /\ role_audit_log[1] = role_audit_log[2]
    /\ role_audit_log[2].role_id = last.role_id
    /\ role_audit_log[2].new_value = last.keys
    /\ <<last.role_id, ReadKey>> \in DOMAIN role_permissions_mapping
    /\ role_permissions_mapping[<<last.role_id, ReadKey>>].granted

(* C14: right after a successful assign_permissions_to_role(R, keys) on an
   existing role, every registered key of keys is in get_role_permissions(R),
   whatever the row was before (absent, granted = FALSE, or expired). *)
C14_GrantedAfterAssign ==
    (/\ last.op = "assign_permissions_to_role"
     /\ last.ok
     /\ last.role_id \in DOMAIN role_hierarchy)
        => registered_keys(last.keys) \subseteq
               get_role_permissions(role_hierarchy, role_permissions_mapping, now,
                                    last.role_id)

(* C15: when assign_role_to_user, remove_role_from_user, create_custom_role
   or update_role_hierarchy returns a failure, the roles, parent pointers,
   levels, grants and assignments are as before the call. *)
C15_FailureChangesNothing ==
    [][(/\ last'.op \in {"assign_role_to_user", "remove_role_from_user",
                         "create_custom_role", "update_role_hierarchy"}
        /\ ~last'.ok)
        => UNCHANGED <<role_hierarchy, role_permissions_mapping, roles,
                       role_permissions, user_roles>>]_vars

(* an owner's removal was refused on priority after an earlier successful
   call, so there was state to keep *)
C15_Witness ==
    /\ last.op = "remove_role_from_user"
    /\ ~last.ok
    /\ last.error = "Cannot remove system role with equal or higher priority"
    /\ Len(permission_audit) + Len(role_audit_log) > 0

(* C16: a finished call is all or nothing, whatever statement failed: a role
   that create_custom_role persisted has every valid requested permission and
   its audit entry, and a parent pointer that update_role_hierarchy changed
   comes with recomputed levels and its audit entry. *)
C16_AllOrNothing ==
    pc[1] = "done" =>
        /\ (call[1].op = "create_custom_role" /\ call[1].role_id # NULL) =>
              /\ \A perm \in valid_perms(call[1].permissions) :
                    <<call[1].role_id, perm>> \in role_permissions
              /\ \E n \in DOMAIN permission_audit :
                    /\ permission_audit[n].action = "role_created"
                    /\ permission_audit[n].target_id = call[1].role_id
        /\ (/\ call[1].op = "update_role_hierarchy"
            /\ call[1].ok
            /\ call[1].role_id \in DOMAIN role_hierarchy
            /\ call[1].old_parent # call[1].new_parent_id
            /\ role_hierarchy[call[1].role_id].parent_role_id = call[1].new_parent_id) =>
              /\ LevelsConsistent(role_hierarchy)
              /\ \E n \in DOMAIN role_audit_log :
                    /\ role_audit_log[n].action_type = "update_hierarchy"
                    /\ role_audit_log[n].role_id = call[1].role_id

(* C17: a call of create_role, create_custom_role, assign_permissions_to_role,
   update_role_hierarchy, assign_role_to_user or remove_role_from_user that
   changes roles, grants, hierarchy or assignments appends one audit entry
   naming the actor; both audit logs only grow, and no entry is ever changed
   or removed. *)
IsPrefix(a, b) == Len(a) <= Len(b) /\ \A n \in 1..Len(a) : a[n] = b[n]

C17_ChangesAreAudited ==
    [][/\ IsPrefix(role_audit_log, role_audit_log')
       /\ IsPrefix(permission_audit, permission_audit')
       /\ (/\ last'.op \in {"create_custom_role", "assign_role_to_user",
                            "remove_role_from_user"}
           /\ <<roles, role_permissions, user_roles>>' # <<roles, role_permissions, user_roles>>)
             => /\ Len(permission_audit') = Len(permission_audit) + 1
                /\ permission_audit'[Len(permission_audit')].user_id = last'.actor
       /\ (/\ last'.op \in {"create_role", "assign_permissions_to_role",
                            "update_role_hierarchy"}
           /\ <<role_hierarchy, role_permissions_mapping>>'
                  # <<role_hierarchy, role_permissions_mapping>>)
             => /\ Len(role_audit_log') = Len(role_audit_log) + 1
                /\ role_audit_log'[Len(role_audit_log')].changed_by \in Editors
                /\ role_audit_log'[Len(role_audit_log')].role_id = last'.role_id]_vars

(* an assignment was removed after it was made: two entries, the first kept *)
C17_Witness ==
    /\ last.op = "remove_role_from_user"
    /\ last.ok
    /\ Len(permission_audit) = 2
    /\ permission_audit[1].action = "role_assigned"
    /\ permission_audit[2].action = "role_removed"
    /\ permission_audit[2].user_id = last.actor

(* C18: authorisation fails closed: a call whose permission read failed is
   denied and creates nothing, and a call of update_role_hierarchy whose
   cycle-check query failed is rejected. *)
C18_FailsClosed ==
    (pc[1] = "done" /\ last.op = "store_failure") =>
        /\ last.statement = "has_permission" =>
              (~call[1].ok /\ roles = default_roles)
        /\ last.statement = "would_create_cycle" => ~call[1].ok

(* C19: assign_role_to_user for a role with is_active = FALSE fails and writes
   no assignment, and the assignments of such a role that exist stay as they
   are unless a removal is called. *)
C19_InactiveRoleBlocksAssignment ==
    [][/\ (/\ last'.op = "assign_role_to_user"
           /\ \E r \in role_named(last'.role_name) : ~roles[r].is_active)
             => (~last'.ok /\ user_roles' = user_roles)
       /\ \A k \in DOMAIN user_roles :
             (~roles[k[2]].is_active /\ last'.op # "remove_role_from_user")
                 => (k \in DOMAIN user_roles' /\ user_roles'[k] = user_roles[k])]_vars

(* the owner's assignment of the inactive moderator role was refused while
   user 2 still holds an active assignment of it *)
C19_Witness ==
    /\ last.op = "assign_role_to_user"
    /\ last.actor = 1
    /\ last.role_name = "moderator"
    /\ ~last.ok
    /\ last.error = "Role not found"
    /\ ~roles[1].is_active
    /\ <<2, 1>> \in DOMAIN user_roles
    /\ user_roles[<<2, 1>>].is_active

(* C20: no two roles of a table share a role_name, no step changes the
   role_name of a role or drops a role, and a creation under a name that is
   taken adds no role and fails, also when two creations run concurrently. *)
UniqueNames(t) ==
    \A a \in DOMAIN t : \A b \in DOMAIN t : a # b => t[a].role_name # t[b].role_name

NamesKept(t, u) ==
    \A r \in DOMAIN t : r \in DOMAIN u /\ u[r].role_name = t[r].role_name

C20_NamesUniqueAndFixed ==
    [][/\ UniqueNames(roles') /\ UniqueNames(role_hierarchy')
       /\ NamesKept(roles, roles') /\ NamesKept(role_hierarchy, role_hierarchy')
       /\ \A p \in Sessions :
             (/\ pc[p] \in {"existing", "insert"}
              /\ pc'[p] # pc[p]
              /\ role_named(call[p].role_name) # {})
                 => (roles' = roles /\ pc'[p] = "done" /\ ~call'[p].ok)
       /\ (last'.op = "create_role" /\ ~last'.ok)
             => role_hierarchy' = role_hierarchy]_vars

(* two sessions asked for the same free name at the same time: one created
   the role, the other passed the name check and failed at the INSERT *)
C20_Witness ==
    /\ pc[1] = "done" /\ pc[2] = "done"
    /\ call[1].role_name = call[2].role_name
    /\ call[1].ok
    /\ call[2].error = "Failed to create role"
    /\ Cardinality(role_named(call[1].role_name)) = 1
    /\ last.op = "create_role" /\ ~last.ok

(* C21: a role is created, reparented or granted a permission only on behalf
   of an actor who holds the scoped permission: roles.create for create_role
   and create_custom_role, roles.edit for update_role_hierarchy and
   assign_permissions_to_role. *)
ScopedPermission(action_type) ==
    IF action_type = "create_role" THEN "roles.create" ELSE "roles.edit"

C21_ScopedPermissionRequired ==
    [][/\ Len(role_audit_log') > Len(role_audit_log) =>
             LET entry == role_audit_log'[Len(role_audit_log')] IN
                 has_permission(entry.changed_by, ScopedPermission(entry.action_type))
       /\ role_hierarchy' # role_hierarchy =>
             Len(role_audit_log') > Len(role_audit_log)
       /\ role_permissions_mapping' # role_permissions_mapping =>
             Len(role_audit_log') > Len(role_audit_log)
       /\ roles' # roles => has_permission(last'.actor, "roles.create")]_vars

(* C22: a run of cleanup_expired_roles only turns is_active from TRUE to FALSE
   on assignments whose expires_at is in the past and leaves every other row
   as it is; running it again on the result changes nothing; and no user's
   permissions or max priority differ before and after the run. *)
C22_CleanupIsIdempotentAndNeutral ==
    [][(last'.op = "cleanup_expired_roles" /\ now' = now) =>
          /\ DOMAIN user_roles' = DOMAIN user_roles
          /\ \A k \in DOMAIN user_roles :
                \/ user_roles'[k] = user_roles[k]
                \/ /\ user_roles[k].is_active
                   /\ user_roles[k].expires_at # NULL
                   /\ user_roles[k].expires_at < now
                   /\ user_roles'[k] = [user_roles[k] EXCEPT !.is_active = FALSE]
          /\ sweep_expired(user_roles', now') = user_roles'
          /\ \A u \in Users :
                /\ get_user_permissions(u)' = get_user_permissions(u)
                /\ get_user_max_priority(u)' = get_user_max_priority(u)
          /\ UNCHANGED <<roles, role_permissions>>]_vars

(* a sweep has turned off user 2's expired assignment of moderator while an
   assignment of user 1 without expiry stays active *)
C22_Witness ==
    /\ last.op = "cleanup_expired_roles"
    /\ ~user_roles[<<2, 1>>].is_active
    /\ user_roles[<<2, 1>>].expires_at < now
    /\ \E k \in DOMAIN user_roles :
          k[1] = 1 /\ user_roles[k].is_active /\ user_roles[k].expires_at = NULL

(* C23: an assignment row that has expired or is inactive is never counted
   again: after any assign_role_to_user, remove_role_from_user or
   cleanup_expired_roles call, and as time passes, the row is still there and
   still expired or inactive. *)
C23_NeverActiveAgain ==
    [][\A k \in DOMAIN user_roles :
          ~assignment_counts(user_roles[k], now) =>
              /\ k \in DOMAIN user_roles'
              /\ ~assignment_counts(user_roles'[k], now')
              /\ user_roles'[k].expires_at = user_roles[k].expires_at
              /\ user_roles[k].is_active = FALSE => user_roles'[k].is_active = FALSE]_vars

(* the owner assigned a role again to a user whose row of that role is
   inactive, and the row is still inactive *)
C23_Witness ==
    /\ last.op = "assign_role_to_user"
    /\ last.actor = 1
    /\ last.error # "Insufficient permissions to assign roles"
    /\ \E r \in role_named(last.role_name) :
          /\ <<last.user_id, r>> \in DOMAIN user_roles
          /\ ~user_roles[<<last.user_id, r>>].is_active

(* C24: assign_permissions_to_role writes grant rows only for keys of the
   permission registry and create_custom_role only for keys of
   ALL_PERMISSIONS; the unknown keys of a list are dropped, and the known keys
   of the same list are granted. *)
KeysOf(list) == {list[i] : i \in DOMAIN list}

C24_OnlyRegisteredKeys ==
    [][/\ \A k \in DOMAIN role_permissions_mapping' :
             (\/ k \notin DOMAIN role_permissions_mapping
              \/ role_permissions_mapping'[k] # role_permissions_mapping[k])
                 => k[2] \in permission_registry
       /\ (role_audit_log' # role_audit_log /\ last'.op = "assign_permissions_to_role") =>
             \A key \in KeysOf(last'.keys) \cap permission_registry :
                /\ <<last'.role_id, key>> \in DOMAIN role_permissions_mapping'
                /\ role_permissions_mapping'[<<last'.role_id, key>>].granted
       /\ \A e \in role_permissions' \ role_permissions : e[2] \in ALL_PERMISSIONS
       /\ \A p \in Sessions :
             (pc[p] # "done" /\ pc'[p] = "done" /\ call'[p].ok) =>
                {e[2] : e \in {f \in role_permissions' : f[1] = call'[p].role_id}}
                    = KeysOf(call'[p].permissions) \cap ALL_PERMISSIONS]_vars

(* a grant whose list held an unknown key went through with its known key, and
   a role was created from a list with an unknown key and holds the known one *)
C24_Witness ==
    /\ last.op = "assign_permissions_to_role"
    /\ last.ok
    /\ "no.such.key" \in KeysOf(last.keys)
    /\ \E key \in KeysOf(last.keys) :
          /\ <<last.role_id, key>> \in DOMAIN role_permissions_mapping
          /\ role_permissions_mapping[<<last.role_id, key>>].granted
    /\ \E p \in Sessions :
          /\ pc[p] = "done"
          /\ call[p].ok
          /\ "bogus.key" \in KeysOf(call[p].permissions)
          /\ <<call[p].role_id, "roles.assign">> \in role_permissions
          /\ <<call[p].role_id, "bogus.key">> \notin role_permissions

(* C25: create_role adds a role only without a parent or under a parent that
   exists and is active; with a parent_role_id that names no role, or an
   inactive one, it fails and adds no role. *)
C25_ParentExistsAndActive ==
    [][\A r \in DOMAIN role_hierarchy' \ DOMAIN role_hierarchy :
          LET parent == role_hierarchy'[r].parent_role_id IN
              \/ parent = NULL
              \/ /\ parent \in DOMAIN role_hierarchy
                 /\ role_hierarchy[parent].is_active]_vars

(* C26: when assign_role_to_user returns success, the user has an active
   assignment of the role right after the call, also when an inactive row of
   the same user and role was there before. *)
C26_SuccessMeansAssigned ==
    [][(/\ permission_audit' # permission_audit
        /\ last'.op = "assign_role_to_user"
        /\ last'.ok) =>
           \E r \in role_named(last'.role_name) :
              /\ <<last'.user_id, r>> \in DOMAIN user_roles'
              /\ user_roles'[<<last'.user_id, r>>].is_active]_vars

(* C27: a successful assign_role_to_user assigns a role whose priority is
   strictly below the max priority the assigner had at the check; the highest
   max priority among the users does not rise by it, and an assigner who
   assigns to themself keeps their max priority. *)
PriorityUnder(ur, u) ==
    LET held == {roles[r].priority : r \in
                    {q \in DOMAIN roles :
                        /\ roles[q].is_active
                        /\ <<u, q>> \in DOMAIN ur
                        /\ ur[<<u, q>>].is_active
                        /\ \/ ur[<<u, q>>].expires_at = NULL
                           \/ now < ur[<<u, q>>].expires_at}}
    IN  IF held = {} THEN 0 ELSE max_of(held)

HighestUnder(ur) == max_of({PriorityUnder(ur, u) : u \in Users})

C27_AssignmentNeverEscalates ==
    [][(/\ permission_audit' # permission_audit
        /\ last'.op = "assign_role_to_user"
        /\ last'.ok) =>
           /\ \A r \in active_role_named(last'.role_name) :
                 roles[r].priority < get_user_max_priority(last'.actor)
           /\ HighestUnder(user_roles') <= HighestUnder(user_roles)
           /\ \A u \in Users :
                 PriorityUnder(user_roles', u) > get_user_max_priority(u) =>
                    /\ u = last'.user_id
                    /\ u # last'.actor
                    /\ PriorityUnder(user_roles', u) < get_user_max_priority(last'.actor)]_vars

(* the owner has assigned a lower role to themself and is still at 100 *)
C27_Witness ==
    /\ last.op = "assign_role_to_user"
    /\ last.ok
    /\ last.actor = last.user_id
    /\ \E r \in role_named(last.role_name) :
          /\ <<last.user_id, r>> \in DOMAIN user_roles
          /\ user_roles[<<last.user_id, r>>].is_active
          /\ roles[r].priority < get_user_max_priority(last.actor)
    /\ get_user_max_priority(last.actor) = 100

(* C28: remove_role_from_user changes at most the active row of the named
   user and role, and only its is_active, to FALSE; no row is deleted and no
   other user's or role's row changes.  When the pair has no active row the
   call changes no row, and still returns success and appends a role_removed
   audit entry. *)
C28_RemoveTouchesOnlyItsRow ==
    [][last'.op = "remove_role_from_user" =>
          /\ DOMAIN user_roles' = DOMAIN user_roles
          /\ \A k \in DOMAIN user_roles :
                user_roles'[k] # user_roles[k] =>
                   /\ last'.ok
                   /\ k[1] = last'.user_id
                   /\ k[2] \in role_named(last'.role_name)
                   /\ user_roles[k].is_active
                   /\ user_roles'[k] = [user_roles[k] EXCEPT !.is_active = FALSE]
          /\ last'.ok =>
                /\ Len(permission_audit') = Len(permission_audit) + 1
                /\ permission_audit'[Len(permission_audit')].action = "role_removed"
                /\ permission_audit'[Len(permission_audit')].user_id = last'.actor
                /\ \A r \in role_named(last'.role_name) :
                      \/ <<last'.user_id, r>> \notin DOMAIN user_roles'
                      \/ ~user_roles'[<<last'.user_id, r>>].is_active
          /\ (/\ has_permission(last'.actor, "roles.assign")
              /\ role_named(last'.role_name) # {}
              /\ last'.role_name \notin {"owner", "admin"}
              /\ \A r \in role_named(last'.role_name) : ~already_has_role(last'.user_id, r)) =>
                 (last'.ok /\ user_roles' = user_roles)]_vars

(* a removal of a role the user never held succeeded and was logged *)
C28_Witness ==
    /\ last.op = "remove_role_from_user"
    /\ last.ok
    /\ permission_audit # <<>>
    /\ permission_audit[Len(permission_audit)].action = "role_removed"
    /\ \A r \in role_named(last.role_name) : <<last.user_id, r>> \notin DOMAIN user_roles
    /\ \E k \in DOMAIN user_roles : k[1] = last.user_id /\ user_roles[k].is_active

(* C29: when update_role_hierarchy returns True for a role, the role's
   parent_role_id is new_parent_id after the call, and the audit entry of the
   call records as old and new parent the parent the role had before and has
   after the call. *)
C29_TrueMeansReparented ==
    [][(/\ last'.op = "update_role_hierarchy"
        /\ last'.ok
        /\ role_audit_log' # role_audit_log
        /\ last'.role_id \in DOMAIN role_hierarchy) =>
           LET entry == role_audit_log'[Len(role_audit_log')] IN
               /\ role_hierarchy'[last'.role_id].parent_role_id = last'.parent_role_id
               /\ entry.old_value = role_hierarchy[last'.role_id].parent_role_id
               /\ entry.new_value = role_hierarchy'[last'.role_id].parent_role_id]_vars

(* C30: when two assign_role_to_user calls for the same user and role run
   concurrently, their statements interleaved, at most one of them adds a row
   for the pair, so that at most one active assignment of the pair exists
   afterwards. *)
RowsAdded(user_id, role_id) ==
    {p \in Sessions :
        /\ call[p].op = "assign_role_to_user"
        /\ call[p].user_id = user_id
        /\ call[p].role_id = role_id
        /\ call[p].inserted}

C30_OneActiveRowPerPair ==
    [][\A p \in Sessions :
          (pc[p] = "assign_insert" /\ pc'[p] = "assign_log") =>
             /\ call'[p].inserted =>
                   /\ RowsAdded(call[p].user_id, call[p].role_id) = {}
                   /\ <<call[p].user_id, call[p].role_id>> \notin DOMAIN user_roles
                   /\ user_roles'[<<call[p].user_id, call[p].role_id>>].is_active
             /\ ~call'[p].inserted => user_roles' = user_roles]_vars

(* both sessions passed the existence check for the same pair and returned
   success; one INSERT added the row, the other was rejected *)
C30_Witness ==
    /\ \A p \in Sessions : pc[p] = "done" /\ call[p].op = "assign_role_to_user" /\ call[p].ok
    /\ call[1].user_id = call[2].user_id
    /\ call[1].role_id = call[2].role_id
    /\ Cardinality(RowsAdded(call[1].user_id, call[1].role_id)) = 1
    /\ user_roles[<<call[1].user_id, call[1].role_id>>].is_active

====
